---- MODULE Spec2Model ----
(***************************************************************************)
(* Model of the query access layer of konflux-devlake-mcp:                 *)
(*   utils/db.py        KonfluxDevLakeConnection (connect, execute_query,  *)
(*                      close)                                             *)
(*   utils/security.py  validate_sql_query, detect_sql_injection,          *)
(*                      validate_database_name, validate_table_name,       *)
(*                      DataMasking                                        *)
(*   main.py            handle_call_tool                                   *)
(*   tools/tools_manager.py  call_tool and the tool bodies                 *)
(*                                                                         *)
(* Every caller is a coroutine on one event loop.  A coroutine keeps the   *)
(* loop until it reaches an await that really suspends; the variable       *)
(* running names the coroutine that holds the loop (0: nobody).            *)
(***************************************************************************)
EXTENDS Integers, Sequences, FiniteSets, TLC

\* ---------------------------------------------------------------- bounds
\* number of concurrent callers (coroutines)
NumCallers == 2
\* number of sockets the driver can open in one run
MaxConns == 3

Callers == 1..NumCallers

\* ------------------------------------------------------ program constants
\* utils/config.py: defaults of DatabaseConfig
pool_min_size == 5
pool_max_size == 50
\* tests/unit/test_db_connection.py: KonfluxDevLakeConnection.MAX_RETRIES
MAX_RETRIES == 3
\* tests/unit/test_db_connection.py: INITIAL_RETRY_DELAY and MAX_RETRY_DELAY,
\* in milliseconds, and BACKOFF_MULTIPLIER
INITIAL_RETRY_DELAY == 500
MAX_RETRY_DELAY == 10000
BACKOFF_MULTIPLIER == 2
\* tests/unit/test_db_connection.py: the transient error table; 0 stands for
\* an error that carries no error code
TRANSIENT_MYSQL_ERRORS == {0, 2006, 2013, 2014, 2055}
\* default of the limit parameter of execute_query
DEFAULT_LIMIT == 100

\* ------------------------------------------------------------ small helpers
Min(a, b) == IF a < b THEN a ELSE b
Max(a, b) == IF a > b THEN a ELSE b

\* Python's seq[:n], negative n included
SliceTo(s, n) ==
  IF n >= 0 THEN SubSeq(s, 1, Min(n, Len(s)))
  ELSE SubSeq(s, 1, Max(0, Len(s) + n))

\* --------------------------------------------------------------- errors
\* an exception: its error code (0: none) and its message
NoErr == [code |-> -1, msg |-> "none"]
MkErr(code, msg) == [code |-> code, msg |-> msg]

\* what pymysql.connect can raise: refused without a code, lost connection,
\* access denied
ConnectErrors ==
  { MkErr(0, "Connection refused"),
    MkErr(2013, "Lost connection to MySQL server"),
    MkErr(1045, "Access denied") }

\* what cursor.execute / fetch can raise on an open connection
QueryErrors == { MkErr(1064, "SQL syntax error") }

AttributeError == MkErr(0, "NoneType object has no attribute cursor")
AlreadyClosed == MkErr(0, "Already closed")
TypeError == MkErr(0, "NoneType object is not subscriptable")
IndexError == MkErr(0, "list index out of range")

\* str(e): pymysql errors print as (code, msg), a bare exception as its msg
StrOfError(e) == [text |-> e.msg, shown_code |-> IF e.code > 0 THEN e.code ELSE 0]
NoErrText == [text |-> "", shown_code |-> 0]


\* ------------------------------------------------------------ query texts
\* A query text is the template that produced it and the values that were
\* interpolated into it: text is the token sequence of a caller-supplied
\* statement (template "raw"), args are the identifiers or filter values
\* substituted into a fixed template, num is the substituted LIMIT.
MkQuery(tmpl, text, args, num) ==
  [tmpl |-> tmpl, text |-> text, args |-> args, num |-> num]
NoQuery == MkQuery("none", <<>>, <<>>, 0)
RawQuery(text) == MkQuery("raw", text, <<>>, 0)
\* the query argument of a call that passed none
NoneQuery == MkQuery("None", <<>>, <<>>, 0)

\* statements callers submit
Q_select == <<"select", " ", "x">>
Q_SelectDrop == <<" ", "SELECT", " ", "drop">>
Q_show == <<"show", " ", "tables">>
Q_drop == <<"DROP", " ", "table">>
Q_comment == <<"show", " ", "--">>
Q_or == <<"show", " ", "or", " ", "1", "=", "1">>
Q_empty == <<>>
RawTexts == {Q_select, Q_SelectDrop, Q_show, Q_drop, Q_comment, Q_or, Q_empty}

\* --------------------------------------------------- text of a statement
\* A statement is a sequence of lexical tokens: words, blanks, punctuation.
\* Words are separated by non-word tokens, so a word token is a whole word.
\* the words that carry upper-case letters, with their lower-case form
Casings ==
  { <<"SELECT", "select">>, <<"SeLeCt", "select">>, <<"Selectx", "selectx">>,
    <<"DROP", "drop">>, <<"Drop", "drop">>, <<"DELETE", "delete">>,
    <<"Truncate", "truncate">>, <<"ALTER", "alter">>, <<"Create", "create">>,
    <<"INSERT", "insert">>, <<"Update", "update">>, <<"GRANT", "grant">>,
    <<"Revoke", "revoke">>, <<"BACKUP", "backup">>, <<"Restore", "restore">>,
    <<"SHUTDOWN", "shutdown">>, <<"Kill", "kill">>, <<"OR", "or">>,
    <<"UNION", "union">>, <<"Updated_At", "updated_at">>, <<"SHOW", "show">> }
\* str.lower() of one token
Lower(tok) ==
  IF \E p \in Casings : p[1] = tok
  THEN (CHOOSE p \in Casings : p[1] = tok)[2]
  ELSE tok
LowerSeq(q) == [i \in 1..Len(q) |-> Lower(q[i])]

IsSpace(tok) == tok \in {" ", "\n", "\t"}
IsDigits(tok) == tok \in {"0", "1", "2", "7", "10"}
\* number of characters of a token
TokLen(tok) ==
  LET t == Lower(tok) IN
  CASE t \in {" ", "\n", "\t", "(", ")", ";", "=", "#", "x", "0", "1", "2", "7"} -> 1
    [] t \in {"--", "/*", "*/", "or", "10"} -> 2
    [] t = "and" -> 3
    [] t \in {"drop", "show", "exec", "kill"} -> 4
    [] t \in {"table", "union", "alter", "grant"} -> 5
    [] t \in {"select", "tables", "update", "delete", "create", "insert",
              "revoke", "backup"} -> 6
    [] t \in {"selectx", "restore", "created"} -> 7
    [] t \in {"truncate", "shutdown"} -> 8
    [] t = "updated_at" -> 10
    [] t = "<filler of 10001 characters>" -> 10001
    [] OTHER -> 1

RECURSIVE SeqLen(_)
\* len(query)
SeqLen(q) == IF q = <<>> THEN 0 ELSE TokLen(Head(q)) + SeqLen(Tail(q))

RECURSIVE LStrip(_)
LStrip(q) == IF q # <<>> /\ IsSpace(Head(q)) THEN LStrip(Tail(q)) ELSE q
RECURSIVE RStrip(_)
RStrip(q) ==
  IF q # <<>> /\ IsSpace(q[Len(q)]) THEN RStrip(SubSeq(q, 1, Len(q) - 1)) ELSE q
\* str.strip()
Strip(q) == RStrip(LStrip(q))

\* query_lower.startswith('select')
StartsWithSelect(ql) == ql # <<>> /\ Head(ql) \in {"select", "selectx"}

\* number of tokens of q equal to tok
Count(q, tok) == Cardinality({i \in 1..Len(q) : q[i] = tok})
\* first index >= i of q that is not a blank (Len(q) + 1 if none)
RECURSIVE SkipSpaces(_, _)
SkipSpaces(q, i) ==
  IF i <= Len(q) /\ IsSpace(q[i]) THEN SkipSpaces(q, i + 1) ELSE i

\* ------------------------------------------------------ validate_sql_query
\* variant: the last keyword is missing from the list
dangerous_keywordsMut ==
  <<"drop", "delete", "truncate", "alter", "create", "insert", "update",
    "grant", "revoke", "backup", "restore", "shutdown">>

dangerous_keywords ==
  <<"drop", "delete", "truncate", "alter", "create", "insert", "update",
    "grant", "revoke", "backup", "restore", "shutdown", "kill">>

\* keyword in query_lower: substring test, so a keyword inside a longer word
\* counts
HasSubstring(tok, kw) ==
  \/ tok = kw
  \/ tok = "updated_at" /\ kw = "update"
  \/ tok = "created" /\ kw = "create"
KeywordIn(ql, kw) == \E i \in 1..Len(ql) : HasSubstring(ql[i], kw)

\* dangerous_patterns, searched in query_lower
PatTrailingSemicolon(ql) == ql # <<>> /\ ql[Len(ql)] = ";"
PatDashComment(ql) == \E i \in 1..Len(ql) : ql[i] = "--"
PatBlockComment(ql) ==
  \E i \in 1..Len(ql) : \E j \in (i + 1)..Len(ql) :
    /\ ql[i] = "/*" /\ ql[j] = "*/"
    /\ \A k \in (i + 1)..(j - 1) : ql[k] # "\n"
PatUnionSelect(ql) ==
  \E i \in 1..Len(ql) :
    /\ ql[i] = "union"
    /\ SkipSpaces(ql, i + 1) > i + 1
    /\ SkipSpaces(ql, i + 1) <= Len(ql)
    /\ StartsWithSelect(<<ql[SkipSpaces(ql, i + 1)]>>)
PatExec(ql) ==
  \E i \in 1..Len(ql) :
    /\ ql[i] = "exec"
    /\ SkipSpaces(ql, i + 1) <= Len(ql)
    /\ ql[SkipSpaces(ql, i + 1)] = "("
PatXpCmdshell(ql) == \E i \in 1..Len(ql) : ql[i] = "xp_cmdshell"
DangerousPattern(ql) ==
  \/ PatTrailingSemicolon(ql) \/ PatDashComment(ql) \/ PatBlockComment(ql)
  \/ PatUnionSelect(ql) \/ PatExec(ql) \/ PatXpCmdshell(ql)

Verdict(ok, reason, detail) == [ok |-> ok, reason |-> reason, detail |-> detail]

validate_sql_query(query) ==
  LET ql == Strip(LowerSeq(query))
      hits == {k \in 1..Len(dangerous_keywords) : KeywordIn(ql, dangerous_keywords[k])}
      first == CHOOSE k \in hits : \A m \in hits : k <= m
  IN IF StartsWithSelect(ql) THEN Verdict(TRUE, "SELECT query allowed", "")
     ELSE IF hits # {}
       THEN Verdict(FALSE, "Dangerous SQL keyword detected", dangerous_keywords[first])
     ELSE IF DangerousPattern(ql)
       THEN Verdict(FALSE, "Dangerous SQL pattern detected", "")
     ELSE IF Count(ql, "(") # Count(ql, ")")
       THEN Verdict(FALSE, "Unbalanced parentheses in SQL query", "")
     ELSE IF SeqLen(query) > 10000
       THEN Verdict(FALSE, "SQL query too long", "")
     ELSE Verdict(TRUE, "Query validation passed", "")

\* ---------------------------------------------------- detect_sql_injection
\* the words each injection pattern looks for (whole words, \b...\b)
InjectionWords ==
  {"insert", "update", "delete", "drop", "create", "alter", "exec", "execute"}
CommentMarks == {"--", "#", "/*", "*/"}
UnionFollowers ==
  {"all", "distinct", "into", "where", "group", "order", "having", "limit",
   "and", "or", "not", "like", "in", "between", "exists", "count", "sum",
   "avg", "min", "max", "top", "offset", "case", "when", "then", "else",
   "end", "if", "elseif", "endif", "while", "for", "loop", "repeat", "until",
   "break", "continue", "return", "exit", "declare", "set", "begin",
   "procedure", "function", "trigger", "event", "transaction", "commit",
   "rollback", "lock", "unlock", "grant", "revoke"}

\* (and|or) blanks digits [blanks] = [blanks] (digits | quoted-string),
\* starting at token i
BooleanIdiomAt(ql, i) ==
  LET a == SkipSpaces(ql, i + 1)
      b == SkipSpaces(ql, a + 1)
      d == SkipSpaces(ql, b + 1)
  IN /\ ql[i] \in {"and", "or"}
     /\ a > i + 1 /\ a <= Len(ql) /\ IsDigits(ql[a])
     /\ b <= Len(ql) /\ ql[b] = "="
     /\ d <= Len(ql) /\ (IsDigits(ql[d]) \/ ql[d] = "<quoted string>")
\* (and|or) blanks quoted-string, starting at token i
QuotedIdiomAt(ql, i) ==
  LET a == SkipSpaces(ql, i + 1)
  IN /\ ql[i] \in {"and", "or"}
     /\ a > i + 1 /\ a <= Len(ql) /\ ql[a] = "<quoted string>"
\* union blanks follower, starting at token i
UnionIdiomAt(ql, i) ==
  LET a == SkipSpaces(ql, i + 1)
  IN /\ ql[i] = "union"
     /\ a > i + 1 /\ a <= Len(ql) /\ ql[a] \in UnionFollowers

SignalAt(ql, i) ==
  \/ ql[i] \in InjectionWords
  \/ ql[i] \in CommentMarks
  \/ BooleanIdiomAt(ql, i)
  \/ QuotedIdiomAt(ql, i)
  \/ UnionIdiomAt(ql, i)

\* the tokens at which some pattern matches, in text order
RECURSIVE SignalsFrom(_, _)
SignalsFrom(ql, i) ==
  IF i > Len(ql) THEN <<>>
  ELSE (IF SignalAt(ql, i) THEN <<ql[i]>> ELSE <<>>) \o SignalsFrom(ql, i + 1)

\* variant: a statement that begins with select is searched like any other
detect_sql_injectionMut(query) ==
  LET ql == Strip(LowerSeq(query)) IN
  IF query = <<>> THEN [detected |-> FALSE, patterns |-> <<>>]
  ELSE [detected |-> SignalsFrom(ql, 1) # <<>>, patterns |-> SignalsFrom(ql, 1)]

detect_sql_injection(query) ==
  LET ql == Strip(LowerSeq(query)) IN
  IF query = <<>> THEN [detected |-> FALSE, patterns |-> <<>>]
  ELSE IF StartsWithSelect(ql) THEN [detected |-> FALSE, patterns |-> <<>>]
  ELSE [detected |-> SignalsFrom(ql, 1) # <<>>, patterns |-> SignalsFrom(ql, 1)]

\* ------------------------------------------------------------ identifiers
\* A name is a sequence of characters ("backtick" and "quote" stand for the
\* characters of those names).
WordChars ==
  {"a", "b", "c", "d", "e", "f", "h", "i", "k", "l", "m", "n", "o", "p", "q",
   "r", "s", "t", "y", "A", "L", "M", "P", "T", "0", "1", "9", "_"}
LowerCh(ch) ==
  CASE ch = "A" -> "a" [] ch = "L" -> "l" [] ch = "M" -> "m"
    [] ch = "P" -> "p" [] ch = "T" -> "t" [] OTHER -> ch
LowerName(n) == [i \in 1..Len(n) |-> LowerCh(n[i])]

\* re.match(r'^[a-zA-Z0-9_]+$', name): $ also matches before a final newline
MatchesIdentPattern(n) ==
  LET body == IF n # <<>> /\ n[Len(n)] = "\n" THEN SubSeq(n, 1, Len(n) - 1) ELSE n
  IN body # <<>> /\ \A i \in 1..Len(body) : body[i] \in WordChars

reserved_words ==
  { <<"i","n","f","o","r","m","a","t","i","o","n","_","s","c","h","e","m","a">>,
    <<"m","y","s","q","l">>,
    <<"p","e","r","f","o","r","m","a","n","c","e","_","s","c","h","e","m","a">>,
    <<"s","y","s">>, <<"t","e","s","t">>, <<"t","m","p">>, <<"t","e","m","p">> }

validate_database_name(db_name) ==
  IF db_name = <<>> THEN Verdict(FALSE, "Database name cannot be empty", "")
  ELSE IF ~MatchesIdentPattern(db_name)
    THEN Verdict(FALSE, "Database name contains invalid characters", "")
  ELSE IF Len(db_name) > 64 THEN Verdict(FALSE, "Database name too long", "")
  ELSE IF LowerName(db_name) \in reserved_words
    THEN Verdict(FALSE, "Database name is reserved", "")
  ELSE Verdict(TRUE, "Database name validation passed", "")

validate_table_name(table_name) ==
  IF table_name = <<>> THEN Verdict(FALSE, "Table name cannot be empty", "")
  ELSE IF ~MatchesIdentPattern(table_name)
    THEN Verdict(FALSE, "Table name contains invalid characters", "")
  ELSE IF Len(table_name) > 64 THEN Verdict(FALSE, "Table name too long", "")
  ELSE Verdict(TRUE, "Table name validation passed", "")

\* names and filter values callers pass
N_lake == <<"l", "a", "k", "e">>
N_Tmp == <<"T", "M", "P">>
N_bad == <<"a", "backtick", ";">>
N_empty == <<>>
DbNames == {N_lake, N_Tmp, N_bad, N_empty}
TableNames == {<<"i", "n", "c">>, N_bad}
V_prod == <<"p", "r", "o", "d">>
V_inject == <<"x", "quote", " ", "O", "R", " ", "1", "=", "1">>
FilterValues == {V_prod, V_inject}

\* ----------------------------------------------------------- result rows
\* A string value is the sequence of its characters.
S_plain == <<"l", "a", "k", "e">>
S_email ==
  <<"a", "l", "i", "c", "e", "@", "c", "o", "r", "p", ".", "e", "x", "a",
    "m", "p", "l", "e", ".", "c", "o", "m">>
S_ip ==
  <<"h", "o", "s", "t", " ", "1", "0", ".", "0", ".", "0", ".", "7">>

\* A value of a result other than the text column: its Python type and, by
\* type, its characters (s), its numbers (n), its keys and its items (kids).
\*   datetime  n = <<year, month, day, hour, minute, second, microsecond>>
\*   date      n = <<year, month, day>>
\*   Decimal   n = <<sign, exponent>> \o the digits of the coefficient
Node(t, s, n, keys, kids) ==
  [t |-> t, s |-> s, n |-> n, keys |-> keys, kids |-> kids]
StrNode(s) == Node("str", s, <<>>, <<>>, <<>>)
NoneNode == Node("None", <<>>, <<>>, <<>>, <<>>)
IntNode(k) == Node("int", <<>>, <<k>>, <<>>, <<>>)
FloatNode(s) == Node("float", s, <<>>, <<>>, <<>>)
TimedeltaNode(secs) == Node("timedelta", <<>>, <<secs>>, <<>>, <<>>)
DateNode(y, m, d) == Node("date", <<>>, <<y, m, d>>, <<>>, <<>>)
DateTimeNode(y, m, d, hh, mm, ss, us) ==
  Node("datetime", <<>>, <<y, m, d, hh, mm, ss, us>>, <<>>, <<>>)
DecimalNode(sign, digits, exp) ==
  Node("Decimal", <<>>, <<sign, exp>> \o digits, <<>>, <<>>)
ListNode(kids) == Node("list", <<>>, <<>>, <<>>, kids)
DictNode(keys, kids) == Node("dict", <<>>, <<>>, keys, kids)
\* fetchall() of a statement that returned no row
EmptyTuple == Node("tuple", <<>>, <<>>, <<>>, <<>>)

DigitChars == <<"0", "1", "2", "3", "4", "5", "6", "7", "8", "9">>
Zeros(k) == [i \in 1..k |-> "0"]
\* "%d" % n, n >= 0
RECURSIVE IntStr(_)
IntStr(n) ==
  IF n < 10 THEN <<DigitChars[n + 1]>>
  ELSE IntStr(n \div 10) \o <<DigitChars[(n % 10) + 1]>>
\* "%0wd" % n
Pad(n, w) == Zeros(w - Len(IntStr(n))) \o IntStr(n)

\* date.isoformat()
date_isoformat(n) ==
  Pad(n[1], 4) \o <<"-">> \o Pad(n[2], 2) \o <<"-">> \o Pad(n[3], 2)
\* datetime.isoformat() of a naive datetime: the fraction is printed when
\* the microsecond is not 0
datetime_isoformat(n) ==
  date_isoformat(n) \o <<"T">> \o Pad(n[4], 2) \o <<":">> \o Pad(n[5], 2)
    \o <<":">> \o Pad(n[6], 2)
    \o (IF n[7] # 0 THEN <<".">> \o Pad(n[7], 6) ELSE <<>>)

\* Decimal.__str__ of a finite number: plain notation when the exponent is
\* not positive and more than -7 digits stand left of the point, scientific
\* notation otherwise
DecimalText(sign, digits, exp) ==
  LET coeff == [i \in 1..Len(digits) |-> DigitChars[digits[i] + 1]]
      leftdigits == exp + Len(coeff)
      dotplace == IF exp <= 0 /\ leftdigits > -6 THEN leftdigits ELSE 1
      intpart ==
        IF dotplace <= 0 THEN <<"0">>
        ELSE IF dotplace >= Len(coeff) THEN coeff \o Zeros(dotplace - Len(coeff))
        ELSE SubSeq(coeff, 1, dotplace)
      fracpart ==
        IF dotplace <= 0 THEN <<".">> \o Zeros(-dotplace) \o coeff
        ELSE IF dotplace >= Len(coeff) THEN <<>>
        ELSE <<".">> \o SubSeq(coeff, dotplace + 1, Len(coeff))
      e == leftdigits - dotplace
      exptext ==
        IF e = 0 THEN <<>>
        ELSE <<"E", IF e < 0 THEN "-" ELSE "+">> \o IntStr(IF e < 0 THEN -e ELSE e)
  IN (IF sign = 1 THEN <<"-">> ELSE <<>>) \o intpart \o fracpart \o exptext

\* the digits of a coefficient without its trailing zeros, and their number
RECURSIVE DropZeros(_)
DropZeros(digits) ==
  IF Len(digits) > 1 /\ digits[Len(digits)] = 0
  THEN DropZeros(SubSeq(digits, 1, Len(digits) - 1)) ELSE digits

\* variant: the number is printed without the trailing zeros of its
\* coefficient, as a conversion through float does
decimal_strMut(n) ==
  LET digits == SubSeq(n, 3, Len(n))
      kept == DropZeros(digits)
  IN DecimalText(n[1], kept, n[2] + Len(digits) - Len(kept))

\* str(data) of a Decimal
decimal_str(n) == DecimalText(n[1], SubSeq(n, 3, Len(n)), n[2])

\* serialize_datetime_objects: dicts and lists are rebuilt item by item,
\* datetime, date and Decimal become text, anything else is returned as is
RECURSIVE serialize_datetime_objects(_)
serialize_datetime_objects(data) ==
  IF data.t \in {"dict", "list"}
  THEN [data EXCEPT !.kids = [i \in 1..Len(data.kids) |->
                                serialize_datetime_objects(data.kids[i])]]
  ELSE IF data.t = "datetime" THEN StrNode(datetime_isoformat(data.n))
  ELSE IF data.t = "date" THEN StrNode(date_isoformat(data.n))
  ELSE IF data.t = "Decimal" THEN StrNode(decimal_str(data.n))
  ELSE data

\* A row has a text column v and a column ts of any type.
RowOf(v, ts) == [v |-> v, ts |-> ts]
Row(v) == RowOf(v, NoneNode)
T_created == DateTimeNode(2024, 1, 15, 10, 30, 0, 0)
T_day == DateNode(987, 6, 5)
D_amount == DecimalNode(0, <<9, 9, 9, 9, 0>>, -3)

\* what the server can answer to one statement
ResultSets ==
  { <<>>,
    <<Row(S_plain)>>,
    <<RowOf(S_email, T_created), Row(S_plain)>>,
    <<RowOf(S_plain, D_amount), Row(S_ip), RowOf(S_email, T_day)>> }

\* the rows of a cursor as the list of dicts fetchall() returns, and back
RowsNode(rows) ==
  IF rows = <<>> THEN EmptyTuple
  ELSE ListNode([i \in 1..Len(rows) |->
                   DictNode(<<"v", "ts">>, <<StrNode(rows[i].v), rows[i].ts>>)])
NodeRows(node) ==
  [i \in 1..Len(node.kids) |->
     RowOf(node.kids[i].kids[1].s, node.kids[i].kids[2])]
\* serialize_datetime_objects(results[:limit])
SerializedRows(rows) == NodeRows(serialize_datetime_objects(RowsNode(rows)))

\* ------------------------------------------------------------ DataMasking
\* character classes of the sensitive patterns
Digits == {"0", "1", "2", "3", "4", "5", "6", "7", "8", "9"}
Letters ==
  {"a", "b", "c", "d", "e", "f", "g", "h", "i", "j", "k", "l", "m",
   "n", "o", "p", "q", "r", "s", "t", "u", "v", "w", "x", "y", "z",
   "A", "B", "C", "D", "E", "F", "G", "H", "I", "J", "K", "L", "M",
   "N", "O", "P", "Q", "R", "S", "T", "U", "V", "W", "X", "Y", "Z"}
\* \w
WordSet == Letters \cup Digits \cup {"_"}
\* [A-Za-z0-9._%+-], [A-Za-z0-9.-], [A-Z|a-z]
LocalChars == Letters \cup Digits \cup {".", "_", "%", "+", "-"}
DomainChars == Letters \cup Digits \cup {".", "-"}
TldChars == Letters \cup {"|"}

SetMax(S) == CHOOSE x \in S : \A y \in S : y <= x
SetMin(S) == CHOOSE x \in S : \A y \in S : x <= y

IsWordAt(s, k) == k >= 1 /\ k <= Len(s) /\ s[k] \in WordSet
\* \b between s[i - 1] and s[i]
Boundary(s, i) == IsWordAt(s, i - 1) # IsWordAt(s, i)
\* last index of the longest run of characters of class that starts at i
\* (i - 1 if there is none)
RunEnd(s, i, class) ==
  LET stops == {k \in i..Len(s) : s[k] \notin class}
  IN IF stops = {} THEN Len(s) ELSE SetMin(stops) - 1
AllDigits(s, lo, hi) == hi <= Len(s) /\ \A k \in lo..hi : s[k] \in Digits
\* position after an optional separator at i
OptSep(s, i, seps) == IF i <= Len(s) /\ s[i] \in seps THEN i + 1 ELSE i

\* The end of the match of each pattern that starts at i, 0 if there is none.
\* email: the local part runs up to the @, the domain is taken as long as
\* possible, so the dot before the top-level name is the last one that is
\* followed by two or more letters and a word boundary
EmailEnd(s, i) ==
  LET j == RunEnd(s, i, LocalChars) + 1
      e == RunEnd(s, j + 1, DomainChars)
      TldEndAt(p) ==
        LET ends == {q \in (p + 2)..RunEnd(s, p + 1, TldChars) : Boundary(s, q + 1)}
        IN IF ends = {} THEN 0 ELSE SetMax(ends)
      dots == {p \in (j + 2)..e : s[p] = "." /\ TldEndAt(p) > 0}
  IN IF Boundary(s, i) /\ j > i /\ j <= Len(s) /\ s[j] = "@" /\ dots # {}
     THEN TldEndAt(SetMax(dots)) ELSE 0

PhoneEnd(s, i) ==
  LET b == OptSep(s, i + 3, {"-", "."})
      d == OptSep(s, b + 3, {"-", "."})
  IN IF /\ Boundary(s, i) /\ AllDigits(s, i, i + 2) /\ AllDigits(s, b, b + 2)
        /\ AllDigits(s, d, d + 3) /\ Boundary(s, d + 4)
     THEN d + 3 ELSE 0

SsnEnd(s, i) ==
  IF /\ Boundary(s, i) /\ AllDigits(s, i, i + 2)
     /\ i + 10 <= Len(s) /\ s[i + 3] = "-" /\ AllDigits(s, i + 4, i + 5)
     /\ s[i + 6] = "-" /\ AllDigits(s, i + 7, i + 10) /\ Boundary(s, i + 11)
  THEN i + 10 ELSE 0

CardEnd(s, i) ==
  LET b == OptSep(s, i + 4, {"-", " "})
      c == OptSep(s, b + 4, {"-", " "})
      d == OptSep(s, c + 4, {"-", " "})
  IN IF /\ Boundary(s, i) /\ AllDigits(s, i, i + 3) /\ AllDigits(s, b, b + 3)
        /\ AllDigits(s, c, c + 3) /\ AllDigits(s, d, d + 3) /\ Boundary(s, d + 4)
     THEN d + 3 ELSE 0

\* one to three digits and a dot from i: the position after the dot
DotGroup(s, i) ==
  LET ns == {n \in 1..3 : /\ AllDigits(s, i, i + n - 1)
                          /\ i + n <= Len(s) /\ s[i + n] = "."}
  IN IF i = 0 \/ ns = {} THEN 0 ELSE i + SetMax(ns) + 1
IpEnd(s, i) ==
  LET g == DotGroup(s, DotGroup(s, DotGroup(s, i)))
      ns == {n \in 1..3 : AllDigits(s, g, g + n - 1) /\ Boundary(s, g + n)}
  IN IF Boundary(s, i) /\ g > 0 /\ ns # {} THEN g + SetMax(ns) - 1 ELSE 0

MatchEnd(kind, s, i) ==
  CASE kind = "email" -> EmailEnd(s, i)
    [] kind = "phone" -> PhoneEnd(s, i)
    [] kind = "ssn" -> SsnEnd(s, i)
    [] kind = "credit_card" -> CardEnd(s, i)
    [] kind = "ip_address" -> IpEnd(s, i)

\* what the match s[i..e] is replaced by; the e-mail replacement keeps the
\* first three characters of the match and what follows its @
Replacement(kind, s, i, e) ==
  LET at == SetMin({k \in i..e : s[k] = "@"}) IN
  CASE kind = "email" ->
         SubSeq(s, i, Min(i + 2, e)) \o <<"*", "*", "*", "@">> \o SubSeq(s, at + 1, e)
    [] kind = "phone" -> <<"*", "*", "*", "-", "*", "*", "*", "-", "*", "*", "*", "*">>
    [] kind = "ssn" -> <<"*", "*", "*", "-", "*", "*", "-", "*", "*", "*", "*">>
    [] kind = "credit_card" ->
         <<"*", "*", "*", "*", "-", "*", "*", "*", "*", "-", "*", "*", "*",
           "*", "-", "*", "*", "*", "*">>
    [] kind = "ip_address" ->
         <<"*", "*", "*", ".", "*", "*", "*", ".", "*", "*", "*", ".", "*",
           "*", "*">>

\* re.sub(pattern, replacement, s): the matches are taken from left to
\* right and do not overlap
RECURSIVE ReSub(_, _, _)
ReSub(kind, s, pos) ==
  IF pos > Len(s) THEN <<>>
  ELSE IF MatchEnd(kind, s, pos) > 0
    THEN Replacement(kind, s, pos, MatchEnd(kind, s, pos))
         \o ReSub(kind, s, MatchEnd(kind, s, pos) + 1)
  ELSE <<s[pos]>> \o ReSub(kind, s, pos + 1)

mask_sensitive_data(data) ==
  IF data = <<>> THEN data
  ELSE ReSub("ip_address",
         ReSub("credit_card",
           ReSub("ssn", ReSub("phone", ReSub("email", data, 1), 1), 1), 1), 1)

\* strings the masking is applied to
MaskTexts ==
  {
    <<>>,
    <<"l", "a", "k", "e">>,
    <<"a", "l", "i", "c", "e", "@", "c", "o", "r", "p", ".", "e", "x", "a",
      "m", "p", "l", "e", ".", "c", "o", "m">>,
    <<"a", "b", "@", "x", ".", "i", "o">>,
    <<"a", "@", "b", ".", "c", "o">>,
    <<"a", "l", "i", "c", "e", "@", "e", "x", "a", "m", "p", "l", "e", ".",
      "c", "o", "m", "@", "i", "d", "p", ".", "e", "x", "a", "m", "p", "l",
      "e", ".", "o", "r", "g">>,
    <<"a", "b", "@", "c", "d", ".", "e", "f", "@", "g", "h", ".", "i", "j">>,
    <<"c", "a", "l", "l", " ", "5", "5", "5", "-", "1", "2", "3", "-", "4",
      "5", "6", "7">>,
    <<"5", "5", "5", "1", "2", "3", "4", "5", "6", "7">>,
    <<"5", "5", "5", ".", "1", "2", "3", ".", "4", "5", "6", "7", " ", "x">>,
    <<"x", "5", "5", "5", "1", "2", "3", "4", "5", "6", "7">>,
    <<"1", "2", "3", "-", "4", "5", "-", "6", "7", "8", "9">>,
    <<"4", "1", "1", "1", " ", "1", "1", "1", "1", " ", "1", "1", "1", "1",
      " ", "1", "1", "1", "1">>,
    <<"4", "1", "1", "1", "-", "1", "1", "1", "1", "-", "1", "1", "1", "1",
      "-", "1", "1", "1", "1">>,
    <<"4", "1", "1", "1", "1", "1", "1", "1", "1", "1", "1", "1", "1", "1",
      "1", "1">>,
    <<"1", "0", ".", "0", ".", "0", ".", "7">>,
    <<"1", ".", "2", ".", "3", ".", "4", ".", "5">>,
    <<"1", "2", "3", "4", ".", "1", ".", "1", ".", "1">>,
    <<"h", "o", "s", "t", " ", "1", "0", ".", "0", ".", "0", ".", "7", " ",
      "a", "l", "i", "c", "e", "@", "c", "o", "r", "p", ".", "e", "x", "a",
      "m", "p", "l", "e", ".", "c", "o", "m">>,
    <<"b", "o", "b", "@", "1", "2", "3", "4", "5", "6", "7", "8", "9", "0",
      ".", "c", "o", "m">>,
    <<"a", "@", "1", "0", ".", "0", ".", "0", ".", "1", ".", "c", "o", "m">>,
    <<"*", "*", "*", "-", "*", "*", "*", "-", "*", "*", "*", "*">>,
    <<"a", "l", "i", "*", "*", "*", "@", "c", "o", "r", "p", ".", "e", "x",
      "a", "m", "p", "l", "e", ".", "c", "o", "m">>,
    <<"a", ".", "b", "@", "x", "-", "y", ".", "c", "o", ".", "u", "k">>,
    <<"a", "@", "b", ".", "c">>,
    <<"a", "@", "b", ".", "c", "1">>,
    <<"A", "_", "9", "%", "+", "-", "z", "@", "Q", ".", "Z", "z", "|">>,
    <<"m", "e", "@", "x", ".", "i", "o", ",", " ", "y", "o", "u", "@", "y",
      ".", "i", "o">>,
    <<"@", "x", ".", "i", "o">>,
    <<"2", "5", "6", ".", "1", ".", "1", ".", "1", " ", "7">>,
    <<"c", "a", "l", "l", " ", "8", "0", "0", ".", "5", "5", "5", ".",
      "0", "1", "9", "9">>,
    <<"9", "8", "7", "-", "6", "5", "-", "4", "3", "2", "1">>,
    <<"1", "9", "2", ".", "1", "6", "8", ".", "1", ".", "1">>,
    <<"a", "l", "i", "c", "i", "a", "@", "c", "o", "r", "p", ".", "e",
      "x", "a", "m", "p", "l", "e", ".", "c", "o", "m">>,
    <<"5", "5", "5", "1", "2", "3", "4", "5", "6", "7", "@", "x", ".",
      "i", "o">>,
    <<"8", "0", "0", "5", "5", "5", "0", "1", "9", "9", "@", "x", ".",
      "i", "o">> }

\* mask_database_result on a list of rows and on a list of strings
RowCells(row) == <<row.v, IF row.ts.t = "str" THEN row.ts.s ELSE <<>>>>
RowFrom(row, cells) ==
  RowOf(cells[1], IF row.ts.t = "str" THEN StrNode(cells[2]) ELSE row.ts)
mask_database_result(rows) ==
  [i \in 1..Len(rows) |->
     RowFrom(rows[i], [j \in 1..2 |-> mask_sensitive_data(RowCells(rows[i])[j])])]
mask_string_list(names) == [i \in 1..Len(names) |-> mask_sensitive_data(names[i])]

\* the values mask_database_result takes: a string, a list of strings, a
\* list of rows
StrValue(t) == [kind |-> "str", s |-> t, items |-> <<>>, rows |-> <<>>]
ListValue(l) == [kind |-> "list", s |-> <<>>, items |-> l, rows |-> <<>>]
RowsValue(r) == [kind |-> "rows", s |-> <<>>, items |-> <<>>, rows |-> r]
mask_value(v) ==
  CASE v.kind = "str" -> [v EXCEPT !.s = mask_sensitive_data(v.s)]
    [] v.kind = "list" -> [v EXCEPT !.items = mask_string_list(v.items)]
    [] v.kind = "rows" -> [v EXCEPT !.rows = mask_database_result(v.rows)]
MaskValues ==
  {StrValue(t) : t \in MaskTexts}
  \cup {ListValue(<<t, S_email>>) : t \in MaskTexts}
  \cup {ListValue(<<>>)}
  \cup {RowsValue(r) : r \in ResultSets}
  \cup {RowsValue(<<Row(S_ip), Row(t)>>) : t \in MaskTexts}

\* ------------------------------------------------------ tool call requests
NoArgs ==
  [query |-> <<>>, hasQuery |-> FALSE, limit |-> DEFAULT_LIMIT,
   database |-> <<>>, table |-> <<>>, project |-> <<>>, environment |-> <<>>]
Call(name, args) == [name |-> name, args |-> args]

ToolLimits == {1, DEFAULT_LIMIT}
ToolCalls ==
  {Call("connect_database", NoArgs), Call("list_databases", NoArgs),
   Call("execute_query", NoArgs)}
  \cup {Call("list_tables", [NoArgs EXCEPT !.database = d]) : d \in DbNames}
  \cup {Call("get_table_schema", [NoArgs EXCEPT !.database = d, !.table = t]) :
          d \in {N_lake, N_bad}, t \in TableNames}
  \cup {Call("execute_query", [NoArgs EXCEPT !.query = q, !.hasQuery = TRUE, !.limit = l]) :
          q \in RawTexts, l \in ToolLimits}
  \cup {Call("ask_database", [NoArgs EXCEPT !.query = q, !.hasQuery = TRUE]) :
          q \in {Q_select, Q_drop}}
  \cup {Call("get_unique_incidents", [NoArgs EXCEPT !.limit = l]) : l \in ToolLimits}
  \cup {Call("get_deployment_list",
               [NoArgs EXCEPT !.project = v, !.environment = V_prod, !.limit = 50]) :
          v \in FilterValues}

\* what the handler hands to the security checks and its decision
Submission(kind, val) == [kind |-> kind, val |-> val]
Decision(ok, error, verdict, patterns, allowed) ==
  [ok |-> ok, error |-> error, verdict |-> verdict, patterns |-> patterns,
   allowed |-> allowed]
NoVerdict == Verdict(TRUE, "", "")

\* variant: the injection check is not applied
GateDecisionMut(name, args) ==
  LET checksQuery == name \in {"execute_query", "ask_database"}
                       /\ args.hasQuery /\ args.query # <<>>
      checksDb == name \in {"list_tables", "get_table_schema"}
      checksTable == name = "get_table_schema"
      vq == validate_sql_query(args.query)
      vd == validate_database_name(args.database)
      vt == validate_table_name(args.table)
      allowed == (IF checksQuery THEN {Submission("query", args.query)} ELSE {})
                 \cup (IF checksDb THEN {Submission("database", args.database)} ELSE {})
                 \cup (IF checksTable THEN {Submission("table", args.table)} ELSE {})
  IN IF checksQuery /\ ~vq.ok
       THEN Decision(FALSE, "SQL query validation failed", vq, <<>>, {})
     ELSE IF checksDb /\ ~vd.ok
       THEN Decision(FALSE, "Database name validation failed", vd, <<>>, {})
     ELSE IF checksTable /\ ~vt.ok
       THEN Decision(FALSE, "Table name validation failed", vt, <<>>, {})
     ELSE Decision(TRUE, "", NoVerdict, <<>>, allowed)

\* the security section of handle_call_tool: the checks it applies to a
\* request, in order, and the first one that denies
GateDecision(name, args) ==
  LET checksQuery == name \in {"execute_query", "ask_database"}
                       /\ args.hasQuery /\ args.query # <<>>
      checksDb == name \in {"list_tables", "get_table_schema"}
      checksTable == name = "get_table_schema"
      vq == validate_sql_query(args.query)
      inj == detect_sql_injection(args.query)
      vd == validate_database_name(args.database)
      vt == validate_table_name(args.table)
      allowed == (IF checksQuery THEN {Submission("query", args.query)} ELSE {})
                 \cup (IF checksDb THEN {Submission("database", args.database)} ELSE {})
                 \cup (IF checksTable THEN {Submission("table", args.table)} ELSE {})
  IN IF checksQuery /\ ~vq.ok
       THEN Decision(FALSE, "SQL query validation failed", vq, <<>>, {})
     ELSE IF checksQuery /\ inj.detected
       THEN Decision(FALSE, "Potential SQL injection detected", NoVerdict, inj.patterns, {})
     ELSE IF checksDb /\ ~vd.ok
       THEN Decision(FALSE, "Database name validation failed", vd, <<>>, {})
     ELSE IF checksTable /\ ~vt.ok
       THEN Decision(FALSE, "Table name validation failed", vt, <<>>, {})
     ELSE Decision(TRUE, "", NoVerdict, <<>>, allowed)

\* the response handed back to the caller of the tool
\*   key        the field of the result that carries the rows
\*   rows,names the rows and strings of the response
\*   tool_rows, tool_names  the same as call_tool returned them
NoResponse ==
  [set |-> FALSE, kind |-> "none", success |-> FALSE, key |-> "",
   rows |-> <<>>, names |-> <<>>, tool_rows |-> <<>>, tool_names |-> <<>>,
   error |-> "", verdict |-> NoVerdict, patterns |-> <<>>]

\* the masking section of handle_call_tool: only a "data" field is masked
MaskedKey(key) == key = "data"

Respond(success, key, rows, names) ==
  [NoResponse EXCEPT !.set = TRUE, !.kind = "result", !.success = success,
     !.key = key, !.tool_rows = rows, !.tool_names = names,
     !.rows = IF MaskedKey(key) THEN mask_database_result(rows) ELSE rows,
     !.names = IF MaskedKey(key) THEN mask_string_list(names) ELSE names]

\* ------------------------------------------------------ the configuration
\* self.config of the connection; Passwords are the secrets it may carry
Passwords == {"s3cret", "hunter2"}
config ==
  [host |-> "db.example", port |-> 3306, user |-> "devlake",
   password |-> "s3cret", database |-> "lake"]

\* variant: the whole configuration is echoed
ConnectionInfoMut(cfg) ==
  [host |-> cfg.host, port |-> cfg.port, user |-> cfg.user,
   database |-> cfg.database, password |-> cfg.password]

\* the connection_info of a successful connect()
ConnectionInfo(cfg) ==
  [host |-> cfg.host, port |-> cfg.port, user |-> cfg.user,
   database |-> cfg.database]
NoConnectionInfo == [host |-> "", port |-> 0, user |-> "", database |-> ""]

\* ------------------------------------------------------------- the frames
\* result of connect()
\*   stage  where it failed: "create" (pymysql.connect) or "probe"
\*   cause  the exception that was caught
CnResult(success, stage, e) ==
  [set |-> TRUE, success |-> success, stage |-> stage, cause |-> e,
   error |-> IF success THEN NoErrText ELSE StrOfError(e),
   connection_info |-> IF success THEN ConnectionInfo(config)
                       ELSE NoConnectionInfo]
NoCnResult ==
  [set |-> FALSE, success |-> FALSE, stage |-> "", cause |-> NoErr,
   error |-> NoErrText, connection_info |-> NoConnectionInfo]
\* result of get_connection_info()
NoInfo == [set |-> FALSE, value |-> NoConnectionInfo, connected |-> FALSE]
\* result of execute_query()
NoEqResult ==
  [set |-> FALSE, success |-> FALSE, query |-> NoQuery, row_count |-> 0,
   data |-> <<>>, error |-> NoErrText]

\* One frame per caller: the position of its coroutine, the locals of the
\* call in progress and the result of the last call.
\*   top        the operation the caller invoked
\*   cnRet,eqRet where connect() / execute_query() return to
\*   cur        the connection on which the caller holds an open cursor
\*   rows       what the cursor holds after execute
\*   attempts   calls of pymysql.connect made by the current connect()
\*   sleeps     backoff sleeps of the current connect()
\*   waits      the time each of them took, in milliseconds
\*   execs      calls of cursor.execute made by the current execute_query()
\*   liveAtStart whether connect() was entered with a live connection
\*   liveAtCall whether execute_query() was entered with a live connection
\*   tool,args  the tool call being handled
\*   gated      what the security checks were given and allowed
\*   executed   the statements sent to the server for this call
\*   dbOps      round trips to the server made for this call
\*   saved      the schema rows kept while the row count is queried
\*   info       what get_connection_info() returned
Frame0 ==
  [pc |-> "idle", top |-> "none", cnRet |-> "idle", eqRet |-> "idle",
   query |-> NoQuery, limit |-> 0, cur |-> 0, rows |-> <<>>,
   attempts |-> 0, sleeps |-> 0, waits |-> <<>>, execs |-> 0, lastErr |-> NoErr,
   liveAtStart |-> FALSE, liveAtCall |-> FALSE, raised |-> FALSE,
   cnResult |-> NoCnResult, eqResult |-> NoEqResult,
   tool |-> "", args |-> NoArgs, gated |-> {}, executed |-> <<>>,
   dbOps |-> 0, saved |-> <<>>, response |-> NoResponse, info |-> NoInfo]

\* no call of a security utility was made yet
\*   arg            the argument of the call
\*   at             datetime.now() of the call
\*   ok, reason, detail   the tuple a validator returned
\*   detected, patterns   the tuple detect_sql_injection returned
\*   value          the value a masking call returned
\*   remasked       the argument was the value of the masking call before
\*   denied_before  an earlier check_rate_limit call was denied
\*   pair           the user and the operation of a check_rate_limit call
NoOut ==
  [op |-> "none", arg |-> <<>>, at |-> 0, ok |-> FALSE, reason |-> "",
   detail |-> "", detected |-> FALSE, patterns |-> <<>>, value |-> <<>>,
   remasked |-> FALSE, denied_before |-> FALSE, pair |-> <<>>]
Out(op, arg) == [NoOut EXCEPT !.op = op, !.arg = arg]

\* ------------------------------------------- inputs of the security checks
SecLeads == { <<>>, <<" ">>, <<"\n", "\t">> }
SecHeads == {"select", "SELECT", "SeLeCt", "Selectx", "show", "SHOW", "DROP", "x"}
SecTails ==
  { <<>>, <<" ", "x">>, <<" ", "drop", " ", "table">>, <<" ", "--">>, <<";">>,
    <<" ", "(">>, <<" ", "(", "x", ")">>, <<" ", "<filler of 10001 characters>">>,
    <<" ", "updated_at">>, <<" ", "Updated_At", "\n">>,
    <<" ", "union", " ", "select">>, <<" ", "UNION", " ", "all">>,
    <<" ", "or", " ", "1", "=", "1">>, <<" ", "/*", "x", "*/">>,
    <<" ", "exec", "(">>, <<" ", "#">>, <<" ", ")", "x", "(">>,
    <<" ", "(", ")", ")", "(">>, <<" ", ")">> }
  \cup { <<" ", p[1]>> : p \in Casings }
SecTexts ==
  { l \o <<h>> \o t : l \in SecLeads, h \in SecHeads, t \in SecTails }
  \cup { <<>>, <<" ">>, <<"\n", "select">> }

\* a name of n characters
LongName(n) == [i \in 1..n |-> "a"]
N_my_db_1 == <<"m", "y", "_", "d", "b", "_", "1">>
N_bad_name == <<"b", "a", "d", " ", "n", "a", "m", "e", "!">>
SecNames ==
  reserved_words
  \cup {N_lake, N_Tmp, N_bad, N_empty, N_my_db_1, N_bad_name,
        <<"M", "y", "s", "q", "l">>, <<"\n">>, <<"_">>, <<"9">>,
        <<"l", "a", "k", "e", "\n", "\n">>, <<"l", "a", " ", "k", "e">>,
        LongName(63), LongName(64), LongName(65)}
  \cup {n \o <<"\n">> : n \in reserved_words \cup {N_lake, N_bad, LongName(63), LongName(64)}}

\* ------------------------------------------------ inputs of serialization
SerLeaves ==
  { T_created, T_day, D_amount,
    DateTimeNode(2024, 1, 15, 10, 30, 0, 123),
    DateTimeNode(1, 1, 1, 0, 0, 0, 0),
    DateTimeNode(9999, 12, 31, 23, 59, 59, 999999),
    DateNode(2024, 12, 31),
    DecimalNode(1, <<5>>, -1), DecimalNode(0, <<0>>, 0),
    DecimalNode(0, <<1>>, 3), DecimalNode(0, <<1>>, -6),
    DecimalNode(0, <<1>>, -7), DecimalNode(0, <<0>>, -3),
    DecimalNode(0, <<1, 0, 5>>, -1), DecimalNode(0, <<1, 0, 0>>, 0),
    DecimalNode(1, <<1, 2, 3>>, 12), DecimalNode(0, <<1, 2, 3, 0>>, -14),
    DecimalNode(0, <<1, 2, 3, 4, 5, 6, 7, 8, 9, 0, 1, 2, 3, 4, 5, 6, 7, 8, 9, 0>>, -2),
    StrNode(S_plain), StrNode(<<"2", "0", "2", "4">>), StrNode(<<>>),
    NoneNode, IntNode(7), IntNode(-1), FloatNode(<<"9", "9", ".", "9", "9">>),
    TimedeltaNode(3600), EmptyTuple }
\* the structures a value is found in
SerWrap(k, x) ==
  CASE k = 0 -> x
    [] k = 1 -> ListNode(<<x, StrNode(S_plain)>>)
    [] k = 2 -> DictNode(<<"created", "name">>, <<x, StrNode(S_plain)>>)
    [] k = 3 -> DictNode(<<"items">>,
                         <<ListNode(<<DictNode(<<"date", "value">>, <<T_created, x>>)>>)>>)
    [] k = 4 -> ListNode(<<ListNode(<<ListNode(<<ListNode(<<x, x>>), NoneNode>>)>>)>>)
    [] k = 5 -> ListNode(<<DictNode(<<"v", "ts">>, <<StrNode(S_email), x>>),
                           DictNode(<<"v", "ts">>, <<StrNode(S_ip), D_amount>>)>>)
SerValues ==
  {SerWrap(k, x) : k \in 0..5, x \in SerLeaves}
  \cup {ListNode(<<>>), DictNode(<<>>, <<>>)}

\* ------------------------------------------------- session tokens, limits
\* timedelta(hours=24), the rate window and the calls it admits
TOKEN_TTL == 86400
RATE_WINDOW == 60
RATE_LIMIT == 100

\* the instants the clock is read at
RateTicks == 2
TokenTicks == 3
NumTokens == 2
Tokens == 1..NumTokens
\* the empty string passed as a token
EmptyToken == 0
Users == {"alice", "bob"}
NoToken == [present |-> FALSE, user_id |-> "", created |-> 0, expires |-> 0]

\* key = f"{user_id}:{operation}"
RateKey(user_id, operation) == user_id \o <<":">> \o operation
RatePairs == { << <<"alice">>, <<"execute_query">> >> }
\* pairs whose user or operation holds a colon
ColonPairs ==
  { << <<"alice">>, <<"admin", ":", "execute_query">> >>,
    << <<"alice", ":", "admin">>, <<"execute_query">> >> }
RateKeys == { RateKey(pr[1], pr[2]) : pr \in RatePairs \cup ColonPairs }
\* a key that is not in self.rate_limits
NoEntries == [present |-> FALSE, times |-> <<>>]

VARIABLES
  connection,   \* self.connection: 0 (None) or the index of a socket
  sock,         \* the sockets opened so far: "open" or "closed"
  established,  \* a connect() has succeeded and no close() came since
  running,      \* the caller that holds the event loop, 0 if none
  fr,           \* the frame of each caller
  lastExec,     \* the socket and the caller of the last statement executed
  now,          \* datetime.now(), in seconds
  rate_limits,  \* self.rate_limits: key -> times of the admitted calls
  session_tokens, \* self.session_tokens: token -> user, created, expires
  out           \* the last call of a security utility and what it returned

dbvars == <<connection, sock, established, running, fr, lastExec>>
secvars == <<now, rate_limits, session_tokens, out>>
vars == <<connection, sock, established, running, fr, lastExec,
          now, rate_limits, session_tokens, out>>

Init ==
  /\ connection = 0
  /\ sock = <<>>
  /\ established = FALSE
  /\ running = 0
  /\ fr = [c \in Callers |-> Frame0]
  /\ lastExec = [conn |-> 0, caller |-> 0]
  /\ now = 0
  /\ rate_limits = [k \in RateKeys |-> NoEntries]
  /\ session_tokens = [t \in Tokens |-> NoToken]
  /\ out = NoOut

\* ------------------------------------------------------------- scheduling
\* variant: the driver call that executes the statement is awaited and
\* suspends the coroutine while its cursor is open
SuspendsMut(p) == p = "eq_execute"

\* Whether the coroutine gives up the event loop when it reaches position p.
\* connect() and execute_query() call the blocking driver (pymysql.connect,
\* cursor.execute, cursor.fetchall) without await, and the one await of
\* execute_query awaits connect(), which never suspends.
Suspends(p) == FALSE

\* caller c may take its next step
Step(c) == running = c \/ (running = 0 /\ Suspends(fr[c].pc))
\* who holds the loop once the coroutine of c stands at p
Hold(c, p) == IF p = "done" \/ Suspends(p) THEN 0 ELSE c
\* a caller may start a call: the loop is free and every finished call has
\* been collected by its caller
MayBegin(c) ==
  /\ running = 0
  /\ fr[c].pc = "idle"
  /\ \A d \in Callers : fr[d].pc # "done"

Live == connection # 0 /\ sock[connection] = "open"

\* get_connection_info(): the configuration without the secret, and whether
\* self.connection is bound
get_connection_info(cfg) ==
  [set |-> TRUE, value |-> ConnectionInfo(cfg), connected |-> connection # 0]

GetConnectionInfo(c) ==
  /\ MayBegin(c)
  /\ fr' = [fr EXCEPT ![c] = [Frame0 EXCEPT !.top = "get_connection_info",
                                 !.pc = "done",
                                 !.info = get_connection_info(config)]]
  /\ UNCHANGED <<connection, sock, established, running, lastExec, secvars>>

\* the class defines no reconnect(): the call raises AttributeError before
\* anything is closed or connected
NoReconnect == MkErr(0, "KonfluxDevLakeConnection object has no attribute reconnect")
Reconnect(c) ==
  /\ MayBegin(c)
  /\ fr' = [fr EXCEPT ![c] = [Frame0 EXCEPT !.top = "reconnect", !.pc = "done",
                                 !.raised = TRUE, !.lastErr = NoReconnect,
                                 !.liveAtStart = Live]]
  /\ UNCHANGED <<connection, sock, established, running, lastExec, secvars>>

\* ------------------------------------------------------------ connect()
\* variant: every error is retried until MAX_RETRIES attempts were made
RetryAllowedMut(e, n) == n < MAX_RETRIES

\* the except clause of connect(): log and return, there is no retry loop
RetryAllowed(e, n) == FALSE

\* the sleep the retry configuration of the tests gives after the failed
\* attempt n; connect() has no retry to apply it to
RetryDelay(n) ==
  Min(INITIAL_RETRY_DELAY * BACKOFF_MULTIPLIER ^ (n - 1), MAX_RETRY_DELAY)

EnterConnect(f, ret) ==
  [f EXCEPT !.pc = "cn_try", !.cnRet = ret, !.attempts = 0, !.sleeps = 0,
            !.waits = <<>>,
            !.liveAtStart = Live, !.cnResult = NoCnResult]

ConnectBegin(c) ==
  /\ MayBegin(c)
  /\ fr' = [fr EXCEPT ![c] = EnterConnect([Frame0 EXCEPT !.top = "connect"], "done")]
  /\ running' = c
  /\ UNCHANGED <<connection, sock, established, lastExec, secvars>>

\* pymysql.connect succeeds: self.connection is bound to the new socket
CnAttemptOk(c) ==
  /\ Step(c)
  /\ fr[c].pc = "cn_try"
  /\ Len(sock) < MaxConns
  /\ sock' = Append(sock, "open")
  /\ connection' = Len(sock) + 1
  /\ fr' = [fr EXCEPT ![c].attempts = @ + 1, ![c].dbOps = @ + 1,
                       ![c].pc = "cn_health"]
  /\ running' = Hold(c, "cn_health")
  /\ UNCHANGED <<established, lastExec, secvars>>

\* pymysql.connect raises e
CnAttemptFail(c) ==
  /\ Step(c)
  /\ fr[c].pc = "cn_try"
  /\ \E e \in ConnectErrors :
       LET n == fr[c].attempts + 1 IN
       IF RetryAllowed(e, n)
       THEN /\ fr' = [fr EXCEPT ![c].attempts = n, ![c].sleeps = @ + 1,
                                 ![c].waits = Append(@, RetryDelay(n)),
                                 ![c].dbOps = @ + 1, ![c].lastErr = e]
            /\ running' = c
       ELSE /\ fr' = [fr EXCEPT ![c].attempts = n, ![c].lastErr = e,
                                 ![c].dbOps = @ + 1,
                                 ![c].cnResult = CnResult(FALSE, "create", e),
                                 ![c].pc = fr[c].cnRet]
            /\ running' = Hold(c, fr[c].cnRet)
  /\ UNCHANGED <<connection, sock, established, lastExec, secvars>>

\* the SELECT VERSION() probe succeeds and connect() returns success
CnHealthOk(c) ==
  /\ Step(c)
  /\ fr[c].pc = "cn_health"
  /\ Live
  /\ fr' = [fr EXCEPT ![c].cnResult = CnResult(TRUE, "", NoErr),
                       ![c].dbOps = @ + 1,
                       ![c].pc = fr[c].cnRet]
  /\ established' = TRUE
  /\ running' = Hold(c, fr[c].cnRet)
  /\ UNCHANGED <<connection, sock, lastExec, secvars>>

\* the probe raises: connect() returns failure, self.connection stays bound
CnHealthFail(c) ==
  /\ Step(c)
  /\ fr[c].pc = "cn_health"
  /\ \E e \in (IF Live THEN QueryErrors ELSE {AlreadyClosed}) :
       fr' = [fr EXCEPT ![c].lastErr = e,
                        ![c].dbOps = IF Live THEN @ + 1 ELSE @,
                        ![c].cnResult = CnResult(FALSE, "probe", e),
                        ![c].pc = fr[c].cnRet]
  /\ running' = Hold(c, fr[c].cnRet)
  /\ UNCHANGED <<connection, sock, established, lastExec, secvars>>

\* --------------------------------------------------------- execute_query()
\* variant: the cursor is closed on the normal path only
CursorAfterExitMut(cur, raised) == IF raised THEN cur ELSE 0

\* the with statement closes the cursor when the block is left, on the
\* normal path and on an exception alike
CursorAfterExit(cur, raised) == 0

\* entry of execute_query: connect lazily when self.connection is None
EnterEQ(f, q, l, ret) ==
  LET g == [f EXCEPT !.query = q, !.limit = l, !.eqRet = ret, !.execs = 0,
                     !.cur = 0, !.rows = <<>>, !.eqResult = NoEqResult,
                     !.liveAtCall = Live]
  IN IF connection = 0 THEN EnterConnect(g, "eq_cursor")
     ELSE [g EXCEPT !.pc = "eq_cursor"]

\* variant: the failure result does not carry the query text
FailEQMut(f, e) ==
  [f EXCEPT !.eqResult = [set |-> TRUE, success |-> FALSE, query |-> NoQuery,
                          row_count |-> 0, data |-> <<>>,
                          error |-> StrOfError(e)],
            !.lastErr = e,
            !.cur = CursorAfterExit(f.cur, TRUE),
            !.pc = f.eqRet]

\* the except clause of execute_query
FailEQ(f, e) ==
  [f EXCEPT !.eqResult = [set |-> TRUE, success |-> FALSE, query |-> f.query,
                          row_count |-> 0, data |-> <<>>,
                          error |-> StrOfError(e)],
            !.lastErr = e,
            !.cur = CursorAfterExit(f.cur, TRUE),
            !.pc = f.eqRet]

\* statements and limits of direct calls of execute_query
DirectTexts == {Q_select, Q_show, Q_drop}
DirectLimits == {1, 2, DEFAULT_LIMIT}

ExecuteQueryBegin(c) ==
  /\ MayBegin(c)
  /\ \E t \in DirectTexts, l \in DirectLimits :
       fr' = [fr EXCEPT ![c] =
                EnterEQ([Frame0 EXCEPT !.top = "execute_query"], RawQuery(t), l, "done")]
  /\ running' = c
  /\ UNCHANGED <<connection, sock, established, lastExec, secvars>>

\* query[:100] raises TypeError when the query is None;
\* self.connection.cursor() raises AttributeError when the lazy connect left
\* self.connection None
EqCursor(c) ==
  /\ Step(c)
  /\ fr[c].pc = "eq_cursor"
  /\ IF fr[c].query = NoneQuery \/ connection = 0
     THEN /\ fr' = [fr EXCEPT ![c] =
                     FailEQ(fr[c], IF fr[c].query = NoneQuery THEN TypeError
                                   ELSE AttributeError)]
          /\ running' = Hold(c, fr[c].eqRet)
     ELSE /\ fr' = [fr EXCEPT ![c].cur = connection, ![c].pc = "eq_execute"]
          /\ running' = Hold(c, "eq_execute")
  /\ UNCHANGED <<connection, sock, established, lastExec, secvars>>

EqExecuteOk(c) ==
  /\ Step(c)
  /\ fr[c].pc = "eq_execute"
  /\ sock[fr[c].cur] = "open"
  /\ \E rs \in ResultSets :
       fr' = [fr EXCEPT ![c].rows = rs, ![c].execs = @ + 1, ![c].dbOps = @ + 1,
                        ![c].executed = Append(@, fr[c].query),
                        ![c].pc = "eq_fetch"]
  /\ running' = Hold(c, "eq_fetch")
  /\ lastExec' = [conn |-> fr[c].cur, caller |-> c]
  /\ UNCHANGED <<connection, sock, established, secvars>>

EqExecuteFail(c) ==
  /\ Step(c)
  /\ fr[c].pc = "eq_execute"
  /\ \E e \in (IF sock[fr[c].cur] = "open" THEN QueryErrors ELSE {AlreadyClosed}) :
       LET sent == sock[fr[c].cur] = "open" IN
       fr' = [fr EXCEPT ![c] =
                FailEQ([fr[c] EXCEPT !.execs = @ + 1,
                                     !.dbOps = IF sent THEN @ + 1 ELSE @,
                                     !.executed = IF sent THEN Append(@, fr[c].query) ELSE @],
                       e)]
  /\ running' = Hold(c, fr[c].eqRet)
  /\ UNCHANGED <<connection, sock, established, lastExec, secvars>>

\* fetchall, truncation to limit after the fetch, the success result
EqFetchOk(c) ==
  /\ Step(c)
  /\ fr[c].pc = "eq_fetch"
  /\ fr' = [fr EXCEPT ![c].eqResult =
                [set |-> TRUE, success |-> TRUE, query |-> fr[c].query,
                 row_count |-> Len(fr[c].rows),
                 data |-> SerializedRows(SliceTo(fr[c].rows, fr[c].limit)),
                 error |-> NoErrText],
              ![c].cur = CursorAfterExit(fr[c].cur, FALSE),
              ![c].pc = fr[c].eqRet]
  /\ running' = Hold(c, fr[c].eqRet)
  /\ UNCHANGED <<connection, sock, established, lastExec, secvars>>

EqFetchFail(c) ==
  /\ Step(c)
  /\ fr[c].pc = "eq_fetch"
  /\ \E e \in QueryErrors :
       fr' = [fr EXCEPT ![c] = FailEQ(fr[c], e)]
  /\ running' = Hold(c, fr[c].eqRet)
  /\ UNCHANGED <<connection, sock, established, lastExec, secvars>>

\* ---------------------------------------------------------------- close()
\* closes the socket self.connection refers to and keeps the reference; the
\* driver raises when that socket was closed before
Close(c) ==
  /\ MayBegin(c)
  /\ IF connection = 0
     THEN /\ fr' = [fr EXCEPT ![c] = [Frame0 EXCEPT !.top = "close", !.pc = "done"]]
          /\ sock' = sock
     ELSE /\ fr' = [fr EXCEPT ![c] = [Frame0 EXCEPT !.top = "close", !.pc = "done",
                                        !.raised = (sock[connection] # "open")]]
          /\ sock' = [sock EXCEPT ![connection] = "closed"]
  /\ established' = FALSE
  /\ UNCHANGED <<connection, running, lastExec, secvars>>

\* ------------------------------------------- handle_call_tool / call_tool
\* default limit of get_deployment_list
DEPLOYMENT_LIMIT == 50

\* [db['Database'] for db in data], [list(table.values())[0] for table in data]
ColumnOf(rows) == [i \in 1..Len(rows) |-> rows[i].v]

ErrorResponse(error) ==
  [NoResponse EXCEPT !.set = TRUE, !.kind = "result", !.success = FALSE,
                     !.error = error]

\* call_tool: the body of the tool named f.tool, up to its first query
ToolBody(f) ==
  LET a == f.args IN
  CASE f.tool = "connect_database" -> EnterConnect(f, "tc_connect_ret")
    [] f.tool = "list_databases" ->
         EnterEQ(f, MkQuery("SHOW DATABASES", <<>>, <<>>, 0), DEFAULT_LIMIT, "tc_eq_ret")
    [] f.tool = "list_tables" ->
         EnterEQ(f, MkQuery("SHOW TABLES FROM", <<>>, <<a.database>>, 0),
                 DEFAULT_LIMIT, "tc_eq_ret")
    [] f.tool = "get_table_schema" ->
         EnterEQ(f, MkQuery("DESCRIBE", <<>>, <<a.database, a.table>>, 0),
                 DEFAULT_LIMIT, "tc_eq_ret")
    [] f.tool = "execute_query" ->
         EnterEQ(f, IF a.hasQuery THEN RawQuery(a.query) ELSE NoneQuery,
                 a.limit, "tc_eq_ret")
    [] f.tool = "get_unique_incidents" ->
         EnterEQ(f, MkQuery("unique incidents", <<>>, <<>>, a.limit), a.limit, "tc_eq_ret")
    [] f.tool = "get_deployment_list" ->
         EnterEQ(f, MkQuery("deployment list", <<>>, <<a.project, a.environment>>,
                            DEPLOYMENT_LIMIT),
                 DEPLOYMENT_LIMIT, "tc_eq_ret")
    [] OTHER -> [f EXCEPT !.pc = "done", !.response = ErrorResponse("Unknown tool")]

\* a security check denies the request: the handler returns the reason
ToolReject(c) ==
  /\ MayBegin(c)
  /\ \E call \in ToolCalls :
       LET d == GateDecision(call.name, call.args) IN
       /\ ~d.ok
       /\ fr' = [fr EXCEPT ![c] =
                   [Frame0 EXCEPT !.top = "tool", !.tool = call.name,
                      !.args = call.args, !.pc = "done",
                      !.response = [NoResponse EXCEPT !.set = TRUE,
                                      !.kind = "rejected", !.error = d.error,
                                      !.verdict = d.verdict,
                                      !.patterns = d.patterns]]]
  /\ UNCHANGED <<connection, sock, established, running, lastExec, secvars>>

\* the checks pass (or none applies): the handler calls the tool
ToolAccept(c) ==
  /\ MayBegin(c)
  /\ \E call \in ToolCalls :
       LET d == GateDecision(call.name, call.args)
           f == ToolBody([Frame0 EXCEPT !.top = "tool", !.tool = call.name,
                            !.args = call.args, !.gated = d.allowed])
       IN /\ d.ok
          /\ fr' = [fr EXCEPT ![c] = f]
          /\ running' = Hold(c, f.pc)
  /\ UNCHANGED <<connection, sock, established, lastExec, secvars>>

\* connect_database returns what connect() returned
ToolConnectReturn(c) ==
  /\ Step(c)
  /\ fr[c].pc = "tc_connect_ret"
  /\ fr' = [fr EXCEPT ![c].pc = "done",
              ![c].response = IF fr[c].cnResult.success
                              THEN Respond(TRUE, "", <<>>, <<>>)
                              ELSE ErrorResponse("connect failed")]
  /\ running' = 0
  /\ UNCHANGED <<connection, sock, established, lastExec, secvars>>

\* the first query of the tool returned: build the tool result, then the
\* handler masks it and returns it; get_table_schema goes on to count rows
ToolEqReturn(c) ==
  /\ Step(c)
  /\ fr[c].pc = "tc_eq_ret"
  /\ LET r == fr[c].eqResult
         t == fr[c].tool
         a == fr[c].args
         f == IF ~r.success
                THEN [fr[c] EXCEPT !.pc = "done", !.response = ErrorResponse("query failed")]
              ELSE IF t = "get_table_schema"
                THEN EnterEQ([fr[c] EXCEPT !.saved = r.data],
                             MkQuery("SELECT COUNT(*)", <<>>, <<a.database, a.table>>, 0),
                             DEFAULT_LIMIT, "tc_eq_ret2")
              ELSE [fr[c] EXCEPT !.pc = "done", !.response =
                      CASE t = "list_databases" ->
                             Respond(TRUE, "databases", <<>>, ColumnOf(r.data))
                        [] t = "list_tables" ->
                             Respond(TRUE, "tables", <<>>, ColumnOf(r.data))
                        [] t = "get_deployment_list" ->
                             Respond(TRUE, "deployments", r.data, <<>>)
                        [] OTHER -> Respond(TRUE, "data", r.data, <<>>)]
     IN /\ fr' = [fr EXCEPT ![c] = f]
        /\ running' = Hold(c, f.pc)
  /\ UNCHANGED <<connection, sock, established, lastExec, secvars>>

\* the row count of get_table_schema returned; count_result["data"][0]
\* raises IndexError on an empty result, which call_tool turns into an error
ToolCountReturn(c) ==
  /\ Step(c)
  /\ fr[c].pc = "tc_eq_ret2"
  /\ LET r == fr[c].eqResult IN
     fr' = [fr EXCEPT ![c].pc = "done",
              ![c].response = IF r.success /\ r.data = <<>>
                              THEN ErrorResponse(IndexError.msg)
                              ELSE Respond(TRUE, "columns", fr[c].saved, <<>>)]
  /\ running' = 0
  /\ UNCHANGED <<connection, sock, established, lastExec, secvars>>

\* the caller takes the result of its finished call
Collect(c) ==
  /\ fr[c].pc = "done"
  /\ fr' = [fr EXCEPT ![c] = Frame0]
  /\ UNCHANGED <<connection, sock, established, running, lastExec, secvars>>

Next ==
  \E c \in Callers :
    \/ ConnectBegin(c)
    \/ CnAttemptOk(c)
    \/ CnAttemptFail(c)
    \/ CnHealthOk(c)
    \/ CnHealthFail(c)
    \/ ExecuteQueryBegin(c)
    \/ EqCursor(c)
    \/ EqExecuteOk(c)
    \/ EqExecuteFail(c)
    \/ EqFetchOk(c)
    \/ EqFetchFail(c)
    \/ Close(c)
    \/ ToolReject(c)
    \/ ToolAccept(c)
    \/ ToolConnectReturn(c)
    \/ ToolEqReturn(c)
    \/ ToolCountReturn(c)
    \/ GetConnectionInfo(c)
    \/ Reconnect(c)
    \/ Collect(c)

Spec == Init /\ [][Next]_vars

\* ===================================================== security utilities
\* Calls of the security manager, the injection detector and the masking
\* utility on their own; the connection is not involved.
ValidateSqlQuery ==
  /\ out.op = "none"
  /\ \E q \in SecTexts :
       LET v == validate_sql_query(q) IN
       out' = [Out("validate_sql_query", q) EXCEPT !.at = now, !.ok = v.ok,
                 !.reason = v.reason, !.detail = v.detail]
  /\ UNCHANGED <<dbvars, now, rate_limits, session_tokens>>

DetectSqlInjection ==
  /\ out.op = "none"
  /\ \E q \in SecTexts :
       LET d == detect_sql_injection(q) IN
       out' = [Out("detect_sql_injection", q) EXCEPT !.at = now,
                 !.detected = d.detected, !.patterns = d.patterns]
  /\ UNCHANGED <<dbvars, now, rate_limits, session_tokens>>

ValidateDatabaseName ==
  /\ out.op = "none"
  /\ \E n \in SecNames :
       LET v == validate_database_name(n) IN
       out' = [Out("validate_database_name", n) EXCEPT !.at = now, !.ok = v.ok,
                 !.reason = v.reason]
  /\ UNCHANGED <<dbvars, now, rate_limits, session_tokens>>

ValidateTableName ==
  /\ out.op = "none"
  /\ \E n \in SecNames :
       LET v == validate_table_name(n) IN
       out' = [Out("validate_table_name", n) EXCEPT !.at = now, !.ok = v.ok,
                 !.reason = v.reason]
  /\ UNCHANGED <<dbvars, now, rate_limits, session_tokens>>

MaskDatabaseResult ==
  /\ out.op = "none"
  /\ \E v \in MaskValues :
       out' = [Out("mask_database_result", v) EXCEPT !.at = now,
                 !.value = mask_value(v)]
  /\ UNCHANGED <<dbvars, now, rate_limits, session_tokens>>

\* the value a masking call returned is masked once more
MaskAgain ==
  /\ out.op = "mask_database_result" /\ ~out.remasked
  /\ out' = [out EXCEPT !.arg = out.value, !.value = mask_value(out.value),
                        !.remasked = TRUE]
  /\ UNCHANGED <<dbvars, now, rate_limits, session_tokens>>

\* the caller takes the result of the call and may make the next one
TakeResult ==
  /\ out.op # "none"
  /\ out' = NoOut
  /\ UNCHANGED <<dbvars, now, rate_limits, session_tokens>>

SecurityNext ==
  \/ ValidateSqlQuery
  \/ DetectSqlInjection
  \/ ValidateDatabaseName
  \/ ValidateTableName
  \/ MaskDatabaseResult
  \/ MaskAgain
  \/ TakeResult

SecuritySpec == Init /\ [][SecurityNext]_vars

\* ---------------------------------------------------------- session tokens
\* secrets.token_urlsafe(32) returns a token that is not in the store
GenerateSessionToken ==
  /\ \E u \in Users, t \in {k \in Tokens : ~session_tokens[k].present} :
       /\ session_tokens' = [session_tokens EXCEPT ![t] =
             [present |-> TRUE, user_id |-> u, created |-> now,
              expires |-> now + TOKEN_TTL]]
       /\ out' = [Out("generate_session_token", <<t>>) EXCEPT !.at = now, !.ok = TRUE]
  /\ UNCHANGED <<dbvars, now, rate_limits>>

\* variant: an expired token stays in the store
AfterExpiryMut(store, t) == store

\* del self.session_tokens[token]
AfterExpiry(store, t) == [store EXCEPT ![t] = NoToken]

\* datetime.now() > token_info['expires']
Expired(t, info) == t > info.expires

ValidateSessionToken ==
  /\ \E t \in Tokens \cup {EmptyToken} :
       LET o == [Out("validate_session_token", <<t>>) EXCEPT !.at = now] IN
       IF t = EmptyToken
       THEN /\ out' = [o EXCEPT !.reason = "Session token is required"]
            /\ session_tokens' = session_tokens
       ELSE IF ~session_tokens[t].present
       THEN /\ out' = [o EXCEPT !.reason = "Invalid session token"]
            /\ session_tokens' = session_tokens
       ELSE IF Expired(now, session_tokens[t])
       THEN /\ out' = [o EXCEPT !.reason = "Session token has expired"]
            /\ session_tokens' = AfterExpiry(session_tokens, t)
       ELSE /\ out' = [o EXCEPT !.ok = TRUE, !.reason = "Valid session token",
                         !.detail = session_tokens[t].user_id]
            /\ session_tokens' = session_tokens
  /\ UNCHANGED <<dbvars, now, rate_limits>>

\* time passes between two calls: half a token lifetime, or one second past
\* a multiple of it
TokenTick ==
  /\ \E d \in {TOKEN_TTL \div 2, 1} :
       /\ d = 1 => now % (TOKEN_TTL \div 2) = 0
       /\ now + d <= TokenTicks * (TOKEN_TTL \div 2) + 1
       /\ now' = now + d
  /\ UNCHANGED <<dbvars, rate_limits, session_tokens, out>>

TokenNext == GenerateSessionToken \/ ValidateSessionToken \/ TokenTick

TokenSpec == Init /\ [][TokenNext]_vars

\* ------------------------------------------------------------ rate limits
\* variant: an entry is kept until it is older than the window
PrunedMut(times, t) == SelectSeq(times, LAMBDA x : t - x <= RATE_WINDOW)

\* the entries that are younger than the window at time t
Pruned(times, t) == SelectSeq(times, LAMBDA x : t - x < RATE_WINDOW)

\* variant: the limit is exceeded only above it
RateExceededMut(n) == n > RATE_LIMIT

\* len(self.rate_limits[key]) >= 100
RateExceeded(n) == n >= RATE_LIMIT

check_rate_limit(user_id, operation) ==
  LET key == RateKey(user_id, operation)
      kept == Pruned(rate_limits[key].times, now)
      o == [Out("check_rate_limit", key) EXCEPT !.at = now,
               !.pair = <<user_id, operation>>,
               !.denied_before = out.denied_before]
  IN IF RateExceeded(Len(kept))
     THEN /\ rate_limits' = [rate_limits EXCEPT ![key] =
                               [present |-> TRUE, times |-> kept]]
          /\ out' = [o EXCEPT !.reason = "Rate limit exceeded",
                              !.denied_before = TRUE]
     ELSE /\ rate_limits' = [rate_limits EXCEPT ![key] =
                               [present |-> TRUE, times |-> Append(kept, now)]]
          /\ out' = [o EXCEPT !.ok = TRUE, !.reason = "Rate limit check passed"]

CheckRateLimit ==
  /\ \E pr \in RatePairs : check_rate_limit(pr[1], pr[2])
  /\ UNCHANGED <<dbvars, now, session_tokens>>

\* time passes between two calls: half a window
RateTick ==
  /\ now + RATE_WINDOW \div 2 <= RateTicks * (RATE_WINDOW \div 2)
  /\ now' = now + RATE_WINDOW \div 2
  /\ UNCHANGED <<dbvars, rate_limits, session_tokens, out>>

RateNext == CheckRateLimit \/ RateTick

RateSpec == Init /\ [][RateNext]_vars

\* calls for several users and operations, made within one second
CheckRateLimitPairs ==
  /\ \E pr \in RatePairs \cup ColonPairs : check_rate_limit(pr[1], pr[2])
  /\ UNCHANGED <<dbvars, now, session_tokens>>

PairNext == CheckRateLimitPairs

PairSpec == Init /\ [][PairNext]_vars

\* ------------------------------------------------------------ serialization
\* a call of serialize_datetime_objects on a value of its own
SerializeDatetimeObjects ==
  /\ \E v \in SerValues :
       out' = [Out("serialize_datetime_objects", v) EXCEPT !.at = now,
                 !.value = serialize_datetime_objects(v)]
  /\ UNCHANGED <<dbvars, now, rate_limits, session_tokens>>

SerializeNext == SerializeDatetimeObjects \/ TakeResult

SerializeSpec == Init /\ [][SerializeNext]_vars

\* ================================================================ claims
\* number of callers holding an open cursor on socket k
Lent(k) == Cardinality({c \in Callers : fr[c].cur = k})
\* the call of c is over (not started, or finished and not yet collected)
AtRest(c) == fr[c].pc \in {"idle", "done"}
\* execute_query of c is between opening and closing its cursor
InWith(c) == fr[c].pc \in {"eq_execute", "eq_fetch"}
LiveCount == Cardinality({k \in 1..Len(sock) : sock[k] = "open"})

\* C1: every connection execute_query took into use has been given back when
\* the call ends, whatever the outcome; when no call is in progress no
\* connection is lent out.
C1_Released ==
  /\ \A c \in Callers : ~InWith(c) => fr[c].cur = 0
  /\ (\A c \in Callers : AtRest(c)) => \A k \in 1..Len(sock) : Lent(k) = 0

\* a call failed in execute or fetch and holds nothing
C1_Witness ==
  \E c \in Callers :
    /\ fr[c].pc = "done" /\ fr[c].top = "execute_query"
    /\ fr[c].eqResult.set /\ ~fr[c].eqResult.success
    /\ fr[c].execs = 1 /\ fr[c].cur = 0

\* C2: a connection is in use by at most one in-flight query at a time, and
\* a successful call returns the rows the server answered to its own query.
C2_Exclusive ==
  /\ \A k \in 1..Len(sock) : Lent(k) <= 1
  /\ \A c \in Callers :
       fr[c].eqResult.set /\ fr[c].eqResult.success =>
         /\ fr[c].eqResult.query = fr[c].query
         /\ fr[c].executed # <<>>
         /\ fr[c].executed[Len(fr[c].executed)] = fr[c].query
         /\ fr[c].eqResult.data = SerializedRows(SliceTo(fr[c].rows, fr[c].limit))

\* a caller has opened its cursor on the very connection that served the
\* last statement of another caller
C2_Witness ==
  \E c \in Callers :
    /\ fr[c].pc = "eq_execute" /\ fr[c].cur # 0
    /\ lastExec.conn = fr[c].cur
    /\ lastExec.caller \in Callers \ {c}
    /\ Lent(fr[c].cur) = 1

\* C3: when creation fails with a transient-classified error, connect() has
\* made MAX_RETRIES creation attempts before it returns the failure, and the
\* failure carries the text of the error.
C3_RetryExhaustion ==
  \A c \in Callers :
    (/\ fr[c].cnResult.set /\ fr[c].cnResult.stage = "create"
     /\ fr[c].cnResult.cause.code \in TRANSIENT_MYSQL_ERRORS)
    => /\ fr[c].attempts = MAX_RETRIES
       /\ ~fr[c].cnResult.success
       /\ fr[c].cnResult.error.text = fr[c].cnResult.cause.msg

\* C4: a creation error outside the transient table is returned after one
\* attempt, without retry and without backoff sleep.
C4_FatalImmediate ==
  \A c \in Callers :
    (/\ fr[c].cnResult.set /\ fr[c].cnResult.stage = "create"
     /\ fr[c].cnResult.cause.code \notin TRANSIENT_MYSQL_ERRORS)
    => /\ fr[c].attempts = 1
       /\ fr[c].sleeps = 0
       /\ ~fr[c].cnResult.success

\* connect() returned an access-denied failure
C4_Witness ==
  \E c \in Callers :
    /\ fr[c].cnResult.set /\ fr[c].cnResult.stage = "create"
    /\ fr[c].cnResult.cause.code = 1045
    /\ fr[c].attempts = 1

\* C5: connect() entered while a live connection exists makes no creation
\* attempt and returns success.
C5_PoolReuse ==
  \A c \in Callers :
    fr[c].cnResult.set /\ fr[c].liveAtStart =>
      fr[c].attempts = 0 /\ fr[c].cnResult.success

\* C6: between a successful connect() and the next close() the number of live
\* connections lies between the configured minimum and maximum pool size.
C6_PoolBounds ==
  established => pool_min_size <= LiveCount /\ LiveCount <= pool_max_size

\* a statement was handed to the security checks and allowed: its text, or
\* every value interpolated into its template; an empty text has nothing to
\* check
Vetted(q, gated) ==
  IF q.tmpl = "raw"
  THEN q.text = <<>> \/ Submission("query", q.text) \in gated
  ELSE \A j \in 1..Len(q.args) :
         \E g \in gated : g.kind \in {"database", "table"} /\ g.val = q.args[j]

\* C7: every statement sent to the server for a tool call was handed to the
\* security checks (as text or through its identifier arguments) and allowed.
C7_AllGated ==
  \A c \in Callers :
    fr[c].top = "tool" =>
      \A i \in 1..Len(fr[c].executed) : Vetted(fr[c].executed[i], fr[c].gated)

\* the security checks deny the request
Denied(name, a) ==
  \/ /\ name \in {"execute_query", "ask_database"}
     /\ \/ ~validate_sql_query(a.query).ok
        \/ detect_sql_injection(a.query).detected
  \/ /\ name \in {"list_tables", "get_table_schema"}
     /\ ~validate_database_name(a.database).ok
  \/ /\ name = "get_table_schema"
     /\ ~validate_table_name(a.table).ok

\* C8: a request the security checks deny makes no round trip to the server
\* (no connect, no execute) and is answered with the rejection and its reason.
C8_RejectedLocally ==
  \A c \in Callers :
    fr[c].top = "tool" /\ Denied(fr[c].tool, fr[c].args) =>
      /\ fr[c].dbOps = 0 /\ fr[c].attempts = 0 /\ fr[c].execs = 0
      /\ fr[c].executed = <<>>
      /\ fr[c].pc = "done"
      /\ fr[c].response.kind = "rejected"
      /\ ~fr[c].response.success
      /\ fr[c].response.error # ""

\* an injection signal was rejected while a live connection was at hand
C8_Witness ==
  \E c \in Callers :
    /\ fr[c].top = "tool" /\ fr[c].pc = "done"
    /\ fr[c].response.kind = "rejected"
    /\ fr[c].response.patterns # <<>>
    /\ fr[c].dbOps = 0
    /\ Live

\* C9: the rows and strings of every response are the masked form of what the
\* tool returned.
C9_AllMasked ==
  \A c \in Callers :
    fr[c].response.set /\ fr[c].response.kind = "result" =>
      /\ fr[c].response.rows = mask_database_result(fr[c].response.tool_rows)
      /\ fr[c].response.names = mask_string_list(fr[c].response.tool_names)

\* execute_query of c has returned
EqReturned(c) ==
  \/ fr[c].top = "execute_query" /\ fr[c].pc = "done"
  \/ fr[c].pc \in {"tc_eq_ret", "tc_eq_ret2"}

\* C10 as stated: execute_query returns a result in every case, and a failure
\* carries the query text and the error message and comes after exactly one
\* execution attempt.
C10_ExactlyOneAttempt ==
  \A c \in Callers :
    /\ EqReturned(c) => fr[c].eqResult.set
    /\ fr[c].eqResult.set /\ ~fr[c].eqResult.success =>
         /\ fr[c].eqResult.query = fr[c].query
         /\ fr[c].eqResult.error = StrOfError(fr[c].lastErr)
         /\ fr[c].execs = 1

\* C10 amended: a failure comes after at most one execution attempt: exactly
\* one when execute or fetch failed, none when the call failed before the
\* statement was executed (no connection after the lazy connect, or a query
\* that is not a string).
C10_AtMostOneAttempt ==
  \A c \in Callers :
    /\ EqReturned(c) => fr[c].eqResult.set
    /\ fr[c].eqResult.set /\ ~fr[c].eqResult.success =>
         /\ fr[c].eqResult.query = fr[c].query
         /\ fr[c].eqResult.error = StrOfError(fr[c].lastErr)
         /\ fr[c].execs <= 1
         /\ fr[c].execs = 0 <=> fr[c].lastErr \in {AttributeError, TypeError}
    /\ fr[c].execs <= 1

\* a call failed because the lazy connect left no connection
C10_Witness ==
  \E c \in Callers :
    /\ fr[c].top = "execute_query" /\ fr[c].pc = "done"
    /\ fr[c].eqResult.set /\ ~fr[c].eqResult.success
    /\ fr[c].lastErr = AttributeError
    /\ fr[c].execs = 0
    /\ fr[c].cnResult.set /\ ~fr[c].cnResult.success

\* C11: when the statement returned more rows than the limit, the result
\* carries the first limit rows in fetch order and its row count is the
\* number of rows handed to the caller.
C11_LimitedCount ==
  \A c \in Callers :
    (/\ fr[c].eqResult.set /\ fr[c].eqResult.success
     /\ fr[c].limit < Len(fr[c].rows))
    => /\ fr[c].eqResult.data = SerializedRows(SubSeq(fr[c].rows, 1, fr[c].limit))
       /\ fr[c].eqResult.row_count = fr[c].limit
       /\ fr[c].eqResult.row_count = Len(fr[c].eqResult.data)

\* C12: once close() has returned, get_connection_info reports
\* connected = false, and a close() of the closed layer does not raise.
C12_CloseIdempotent ==
  \A c \in Callers :
    fr[c].top = "close" /\ fr[c].pc = "done" =>
      /\ ~get_connection_info(config).connected
      /\ ~fr[c].raised

\* C13: reconnect() returns the result of a connect() made after the
\* existing connection was torn down; it does not raise, and after it
\* returned at most one connection is open.
C13_ReconnectOrder ==
  \A c \in Callers :
    fr[c].top = "reconnect" /\ fr[c].pc = "done" =>
      /\ ~fr[c].raised
      /\ fr[c].cnResult.set
      /\ LiveCount <= 1

\* the configurations that differ from config in the password only
SamePublic == {[config EXCEPT !.password = p] : p \in Passwords}

\* C14: no result of connect() or get_connection_info() carries the
\* password: it has no password field and it is the result every
\* configuration that differs in the password only produces.
C14_NoPassword ==
  \A c \in Callers :
    /\ fr[c].cnResult.set =>
         /\ "password" \notin DOMAIN fr[c].cnResult
         /\ "password" \notin DOMAIN fr[c].cnResult.connection_info
         /\ \A cfg \in SamePublic :
              fr[c].cnResult.connection_info =
                IF fr[c].cnResult.success THEN ConnectionInfo(cfg)
                ELSE NoConnectionInfo
    /\ fr[c].info.set =>
         /\ "password" \notin DOMAIN fr[c].info
         /\ "password" \notin DOMAIN fr[c].info.value
         /\ \A cfg \in SamePublic : fr[c].info = get_connection_info(cfg)

\* connection info was read from a layer whose connection had been closed,
\* after a connect() that succeeded
C14_Witness ==
  \E c \in Callers :
    /\ fr[c].top = "get_connection_info" /\ fr[c].pc = "done"
    /\ fr[c].info.set /\ fr[c].info.connected
    /\ fr[c].info.value.user = config.user
    /\ connection # 0 /\ ~Live

\* the statement begins with select once leading blanks are dropped and
\* case is ignored
BeginsWithSelect(q) ==
  LET k == SkipSpaces(q, 1)
  IN k <= Len(q) /\ Lower(q[k]) \in {"select", "selectx"}

\* C15: a statement that begins with select is allowed by validate_sql_query
\* and detect_sql_injection reports nothing for it, whatever follows.
C15_SelectBypass ==
  /\ out.op = "validate_sql_query" /\ BeginsWithSelect(out.arg) => out.ok
  /\ out.op = "detect_sql_injection" /\ BeginsWithSelect(out.arg) =>
       ~out.detected /\ out.patterns = <<>>

\* the detector was given a select statement, after leading blanks and in
\* mixed case, that carries a comment mark
C15_Witness ==
  /\ out.op = "detect_sql_injection"
  /\ Len(out.arg) >= 4 /\ IsSpace(out.arg[1])
  /\ \E i \in 1..Len(out.arg) : out.arg[i] = "SeLeCt"
  /\ \E i \in 1..Len(out.arg) : out.arg[i] = "--"
  /\ ~out.detected

\* the keywords the claim lists
Denylist ==
  {"drop", "delete", "truncate", "alter", "create", "insert", "update",
   "grant", "revoke", "backup", "restore", "shutdown", "kill"}
ContainsKeyword(q, kw) == \E i \in 1..Len(q) : HasSubstring(Lower(q[i]), kw)

\* C16: a statement that does not begin with select and contains a
\* denylisted keyword in any letter case is denied, and the reason names a
\* denylisted keyword that the statement contains.
C16_KeywordDenied ==
  (/\ out.op = "validate_sql_query"
   /\ ~BeginsWithSelect(out.arg)
   /\ \E kw \in Denylist : ContainsKeyword(out.arg, kw))
  => /\ ~out.ok
     /\ out.reason = "Dangerous SQL keyword detected"
     /\ out.detail \in Denylist
     /\ ContainsKeyword(out.arg, out.detail)

\* a statement was denied for the last keyword of the list, written in
\* mixed case
C16_Witness ==
  /\ out.op = "validate_sql_query" /\ ~out.ok
  /\ out.detail = "kill"
  /\ \E i \in 1..Len(out.arg) : out.arg[i] = "Kill"

\* the rule of the claim for a database name (kind "database") or a table
\* name
RuleAllows(kind, n) ==
  /\ n # <<>>
  /\ \A i \in 1..Len(n) : n[i] \in WordChars
  /\ Len(n) <= 64
  /\ kind = "database" => LowerName(n) \notin reserved_words

\* C17: a name is allowed if and only if it is not empty, consists of
\* letters, digits and underscores only, has at most 64 characters and, for
\* a database name, is not a reserved word.
C17_IdentifierRule ==
  /\ out.op = "validate_database_name" =>
       (out.ok <=> RuleAllows("database", out.arg))
  /\ out.op = "validate_table_name" =>
       (out.ok <=> RuleAllows("table", out.arg))

\* the step is a check_rate_limit call for key k
RateCall(k) ==
  /\ out'.op = "check_rate_limit" /\ out'.arg = k
  /\ out' # out \/ rate_limits' # rate_limits
\* the admitted calls for key k that lie less than a window before time t
Recent(k, t) ==
  Cardinality({i \in 1..Len(rate_limits[k].times) :
                 /\ t - rate_limits[k].times[i] >= 0
                 /\ t - rate_limits[k].times[i] < RATE_WINDOW})

\* C18: a call is admitted when fewer than 100 admitted calls of its pair
\* lie within the last minute and denied when 100 do, so 100 calls within
\* a minute pass, the next one is denied and calls pass again once the
\* window has elapsed; no window of one minute ever holds more than 100
\* admitted calls.
C18_RateWindow ==
  /\ [](\A k \in RateKeys :
         \A t \in {now} \cup {rate_limits[k].times[i] : i \in 1..Len(rate_limits[k].times)} :
           Recent(k, t) <= RATE_LIMIT)
  /\ [][\A k \in RateKeys :
          RateCall(k) =>
            /\ Recent(k, now) < RATE_LIMIT =>
                 /\ out'.ok
                 /\ Len(rate_limits'[k].times) = Recent(k, now) + 1
                 /\ rate_limits'[k].times[Len(rate_limits'[k].times)] = now
            /\ Recent(k, now) >= RATE_LIMIT =>
                 /\ ~out'.ok
                 /\ Len(rate_limits'[k].times) = Recent(k, now)]_vars

\* a call was admitted after an earlier call of the pair had been denied
C18_Witness ==
  /\ out.op = "check_rate_limit" /\ out.ok /\ out.denied_before
  /\ out.at >= RATE_WINDOW

\* the step is a validate_session_token call for token t
TokenCall(t) ==
  /\ out'.op = "validate_session_token" /\ out'.arg = <<t>>
  /\ out' # out \/ session_tokens' # session_tokens

\* C19: a stored token is accepted from its creation until 24 hours later
\* and stays in the store; validated after that it is rejected and the
\* validation removes it from the store.
C19_TokenLifetime ==
  [][\A t \in Tokens :
       TokenCall(t) /\ session_tokens[t].present =>
         IF now > session_tokens[t].created + TOKEN_TTL
         THEN ~out'.ok /\ ~session_tokens'[t].present
         ELSE /\ out'.ok /\ out'.detail = session_tokens[t].user_id
              /\ session_tokens'[t] = session_tokens[t]]_vars

\* a validation found its token expired and the token is gone
C19_Witness ==
  /\ out.op = "validate_session_token" /\ ~out.ok
  /\ out.reason = "Session token has expired"
  /\ ~session_tokens[out.arg[1]].present
  /\ out.at > TOKEN_TTL

\* C20: masking a value that was already masked returns that value
\* unchanged.
C20_MaskIdempotent ==
  out.op = "mask_database_result" /\ out.remasked => out.value = out.arg

\* the number a digit character stands for, 10 for any other character
DigitVal(ch) ==
  IF \E d \in 0..9 : DigitChars[d + 1] = ch
  THEN CHOOSE d \in 0..9 : DigitChars[d + 1] = ch ELSE 10
IsNumeral(s) == s # <<>> /\ \A i \in 1..Len(s) : DigitVal(s[i]) < 10
RECURSIVE NumeralVal(_)
NumeralVal(s) ==
  IF s = <<>> THEN 0
  ELSE 10 * NumeralVal(SubSeq(s, 1, Len(s) - 1)) + DigitVal(s[Len(s)])
\* first index of ch in s, 0 if there is none
IndexOf(s, ch) ==
  IF \E i \in 1..Len(s) : s[i] = ch
  THEN CHOOSE i \in 1..Len(s) : s[i] = ch /\ \A j \in 1..(i - 1) : s[j] # ch
  ELSE 0

\* The date or date and time an ISO-8601 text YYYY-MM-DD[THH:MM:SS[.ffffff]]
\* denotes, <<>> if the text has another form; the fraction is written only
\* when it is not zero.
ReadIso(s) ==
  LET dateOk == /\ Len(s) >= 10 /\ s[5] = "-" /\ s[8] = "-"
                /\ IsNumeral(SubSeq(s, 1, 4)) /\ IsNumeral(SubSeq(s, 6, 7))
                /\ IsNumeral(SubSeq(s, 9, 10))
      day == <<NumeralVal(SubSeq(s, 1, 4)), NumeralVal(SubSeq(s, 6, 7)),
               NumeralVal(SubSeq(s, 9, 10))>>
      timeOk == /\ Len(s) >= 19 /\ s[11] = "T" /\ s[14] = ":" /\ s[17] = ":"
                /\ IsNumeral(SubSeq(s, 12, 13)) /\ IsNumeral(SubSeq(s, 15, 16))
                /\ IsNumeral(SubSeq(s, 18, 19))
      time == <<NumeralVal(SubSeq(s, 12, 13)), NumeralVal(SubSeq(s, 15, 16)),
                NumeralVal(SubSeq(s, 18, 19))>>
      fracOk == /\ Len(s) = 26 /\ s[20] = "." /\ IsNumeral(SubSeq(s, 21, 26))
                /\ NumeralVal(SubSeq(s, 21, 26)) # 0
  IN IF dateOk /\ Len(s) = 10 THEN day
     ELSE IF dateOk /\ timeOk /\ Len(s) = 19 THEN day \o time \o <<0>>
     ELSE IF dateOk /\ timeOk /\ fracOk
       THEN day \o time \o <<NumeralVal(SubSeq(s, 21, 26))>>
     ELSE <<>>

RECURSIVE DropLeadingZeros(_)
DropLeadingZeros(s) ==
  IF Len(s) > 1 /\ s[1] = "0" THEN DropLeadingZeros(Tail(s)) ELSE s

\* The decimal number a numeral [-]digits[.digits][E(+|-)digits] denotes, as
\* <<sign, exponent>> \o the digits of its coefficient; <<>> if the text has
\* another form.
ReadDecimal(s) ==
  LET sign == IF s # <<>> /\ s[1] = "-" THEN 1 ELSE 0
      body == IF sign = 1 THEN Tail(s) ELSE s
      epos == IndexOf(body, "E")
      mant == IF epos = 0 THEN body ELSE SubSeq(body, 1, epos - 1)
      etext == IF epos = 0 THEN <<>> ELSE SubSeq(body, epos + 2, Len(body))
      eOk == epos = 0 \/ (/\ epos + 2 <= Len(body) /\ body[epos + 1] \in {"+", "-"}
                          /\ IsNumeral(etext))
      expo == IF epos = 0 THEN 0
              ELSE IF body[epos + 1] = "-" THEN 0 - NumeralVal(etext)
              ELSE NumeralVal(etext)
      dot == IndexOf(mant, ".")
      intp == IF dot = 0 THEN mant ELSE SubSeq(mant, 1, dot - 1)
      frac == IF dot = 0 THEN <<>> ELSE SubSeq(mant, dot + 1, Len(mant))
      coeff == DropLeadingZeros(intp \o frac)
  IN IF eOk /\ IsNumeral(intp) /\ (dot = 0 \/ IsNumeral(frac))
     THEN <<sign, expo - Len(frac)>> \o [i \in 1..Len(coeff) |-> DigitVal(coeff[i])]
     ELSE <<>>

\* b is a with every datetime, date and Decimal replaced by the text that
\* denotes it, and nothing else changed
RECURSIVE CanonicalOf(_, _)
CanonicalOf(a, b) ==
  IF a.t \in {"dict", "list"}
  THEN /\ b.t = a.t /\ b.keys = a.keys /\ b.s = a.s /\ b.n = a.n
       /\ Len(b.kids) = Len(a.kids)
       /\ \A i \in 1..Len(a.kids) : CanonicalOf(a.kids[i], b.kids[i])
  ELSE IF a.t \in {"datetime", "date"}
  THEN b.t = "str" /\ ReadIso(b.s) = a.n /\ b.kids = <<>> /\ b.keys = <<>>
  ELSE IF a.t = "Decimal"
  THEN b.t = "str" /\ ReadDecimal(b.s) = a.n /\ b.kids = <<>> /\ b.keys = <<>>
  ELSE b = a

C22_LazyConnect ==
  \A c \in Callers :
    (/\ fr[c].top = "execute_query" /\ fr[c].eqResult.set
     /\ ~fr[c].liveAtCall)
    => /\ fr[c].cnResult.set
       /\ fr[c].attempts >= 1
       /\ fr[c].cnResult.success =>
            /\ fr[c].execs = 1
            /\ fr[c].eqResult.success =>
                 fr[c].eqResult.data = SerializedRows(SliceTo(fr[c].rows, fr[c].limit))

\* the positions at which a call waits for the server: connection creation,
\* the health probe, the round trip of the statement, the row fetch
WaitPoints == {"cn_try", "cn_health", "eq_execute", "eq_fetch"}

\* C23: while the call of one caller waits for the server, the event loop is
\* free for the others: an idle caller can start its query.
C23_OthersProceed ==
  \A c \in Callers : \A d \in Callers \ {c} :
    (/\ fr[c].pc \in WaitPoints
     /\ fr[d].pc = "idle"
     /\ \A x \in Callers : fr[x].pc # "done")
    => ENABLED ExecuteQueryBegin(d)

\* the wait before retry k in milliseconds: 0.5 s doubled after each
\* failure, at most 10 s
BackoffDelay(k) == Min(500 * 2 ^ (k - 1), 10000)

\* C24: a connect() that gave up on a transient creation error has waited
\* before each of its retries k the delay min(0.5 s * 2^(k-1), 10 s).
C24_Backoff ==
  \A c \in Callers :
    (/\ fr[c].cnResult.set /\ fr[c].cnResult.stage = "create"
     /\ fr[c].cnResult.cause.code \in TRANSIENT_MYSQL_ERRORS)
    => /\ fr[c].sleeps = MAX_RETRIES - 1
       /\ fr[c].waits = [k \in 1..(MAX_RETRIES - 1) |-> BackoffDelay(k)]

\* the patterns in the order they are applied, and the text a pattern is
\* applied to: the text after the patterns before it
MaskKinds == <<"email", "phone", "ssn", "credit_card", "ip_address">>
RECURSIVE Stage(_, _)
Stage(k, s) == IF k = 1 THEN s ELSE ReSub(MaskKinds[k - 1], Stage(k - 1, s), 1)
\* where the matches start that the substitution of a pattern replaces
RECURSIVE Taken(_, _, _)
Taken(kind, s, pos) ==
  IF pos > Len(s) THEN {}
  ELSE IF MatchEnd(kind, s, pos) > 0
    THEN {pos} \cup Taken(kind, s, MatchEnd(kind, s, pos) + 1)
  ELSE Taken(kind, s, pos + 1)
\* a and b differ, and only inside one replaced match that starts at i
DiffersInMatch(kind, a, b, i) ==
  /\ a # b
  /\ i \in Taken(kind, a, 1) \cap Taken(kind, b, 1)
  /\ SubSeq(a, 1, i - 1) = SubSeq(b, 1, i - 1)
  /\ SubSeq(a, MatchEnd(kind, a, i) + 1, Len(a))
       = SubSeq(b, MatchEnd(kind, b, i) + 1, Len(b))
\* the places at which the texts a and b differ only inside a match of
\* pattern k, both taken as they are when that pattern is applied
PeerPlaces(k, a, b) ==
  LET sa == Stage(k, a)
      sb == Stage(k, b)
  IN IF sa = sb THEN {}
     ELSE {i \in Taken(MaskKinds[k], sa, 1) : DiffersInMatch(MaskKinds[k], sa, sb, i)}

\* C25: the masked output does not depend on the characters of a
\* matched value: a text that differs from the masked one only inside a match
\* of any category masks to the same output.
C25_FixedTokens ==
  out.op = "mask_database_result" /\ out.arg.kind = "str" =>
    \A k \in 1..5 : \A t2 \in MaskTexts :
      PeerPlaces(k, out.arg.s, t2) # {} => mask_sensitive_data(t2) = out.value.s

\* the number of ( less the number of ) among the first i tokens
Depth(q, i) ==
  Cardinality({j \in 1..i : q[j] = "("}) - Cardinality({j \in 1..i : q[j] = ")"})
\* every ) closes a ( before it and every ( is closed
Balanced(q) == Depth(q, Len(q)) = 0 /\ \A i \in 1..Len(q) : Depth(q, i) >= 0

\* C26: a statement that does not begin with select and whose parentheses
\* are unbalanced (their numbers differ, or a ) comes before the ( it would
\* close) is denied.
C26_Unbalanced ==
  (/\ out.op = "validate_sql_query"
   /\ ~BeginsWithSelect(out.arg)
   /\ ~Balanced(out.arg))
  => ~out.ok

\* C27: get_connection_info reports connected = true only while a connect()
\* has succeeded and no close() came since, and a connect() that returned a
\* failure leaves the layer reporting connected = false.
C27_ConnectedFlag ==
  \A c \in Callers :
    /\ fr[c].info.set /\ fr[c].info.connected => established
    /\ (/\ fr[c].top = "connect" /\ fr[c].pc = "done"
        /\ ~fr[c].cnResult.success)
       => ~get_connection_info(config).connected

\* C28: every socket the layer has opened is the one self.connection refers
\* to or has been closed.
C28_NoLeak ==
  \A k \in 1..Len(sock) : sock[k] = "open" => k = connection

\* how often the instant x occurs among times
Occurs(times, x) == Cardinality({i \in 1..Len(times) : times[i] = x})

\* C29: after a check_rate_limit call the window of its key holds at most
\* 100 timestamps, each of them less than 60 seconds older than the call; a
\* denied call adds no timestamp, and no call drops a timestamp that is
\* younger than 60 seconds, so the window holds every call admitted in the
\* last 60 seconds and these are never more than 100.
C29_WindowBound ==
  /\ [](out.op = "check_rate_limit" =>
          LET w == rate_limits[out.arg].times IN
          /\ Len(w) <= RATE_LIMIT
          /\ \A i \in 1..Len(w) : w[i] <= out.at /\ out.at - w[i] < RATE_WINDOW)
  /\ [][\A k \in RateKeys :
          RateCall(k) =>
            /\ ~out'.ok => Len(rate_limits'[k].times) <= Len(rate_limits[k].times)
            /\ out'.ok => Occurs(rate_limits'[k].times, now)
                            = Occurs(rate_limits[k].times, now) + 1
            /\ \A i \in 1..Len(rate_limits[k].times) :
                 LET x == rate_limits[k].times[i] IN
                 x < now /\ now - x < RATE_WINDOW =>
                   Occurs(rate_limits'[k].times, x) = Occurs(rate_limits[k].times, x)]_vars

\* a call was denied while the window held 100 timestamps of two different
\* instants
C29_Witness ==
  /\ out.op = "check_rate_limit" /\ ~out.ok
  /\ Len(rate_limits[out.arg].times) = RATE_LIMIT
  /\ rate_limits[out.arg].times[1] < out.at
  /\ rate_limits[out.arg].times[RATE_LIMIT] = out.at

\* the step is a check_rate_limit call for the pair p
PairCall(p) ==
  /\ out'.op = "check_rate_limit" /\ out'.pair = p
  /\ out' # out \/ rate_limits' # rate_limits
\* the window check_rate_limit keeps for the pair p
WindowOf(limits, p) == limits[RateKey(p[1], p[2])]

\* C30: a check_rate_limit call for one pair of user and operation leaves
\* the window of every other pair as it was, whatever the strings are.
C30_PairsIndependent ==
  [][\A p \in RatePairs \cup ColonPairs :
       PairCall(p) =>
         \A q \in (RatePairs \cup ColonPairs) \ {p} :
           WindowOf(rate_limits', q) = WindowOf(rate_limits, q)]_vars

====
